---------------------------- MODULE Spec2Model ----------------------------
(***************************************************************************)
(* A model of the scrabble-rs game engine (src/src/scrabble/mod.rs) and of *)
(* the channel layer that drives it (src/src/main.rs).                     *)
(*                                                                         *)
(* Vectors are sequences (1-based); the code's 0-based indexes are kept    *)
(* and shifted by one where a sequence is read.  A String is a TLA+        *)
(* string, a char a string of length one, an absent char the empty string. *)
(***************************************************************************)
EXTENDS Integers, Sequences, FiniteSets, TLC

----------------------------------------------------------------------------
(* Program constants *)

BOARD_SIZE == 15
BOARD_CENTER == 112
INDEX_OVERFLOW == 15 * 15
RACK_SIZE == 7
BINGO_SIZE == 7
BINGO_BONUS == 50
PASS_BAG_LIMIT == 6

----------------------------------------------------------------------------
(* Bounds of the model *)

\* longest turn a client message carries
MaxTurnLen == 2

\* users (one connection each) that may join the room
Names == {"Frankie", "Ada"}

\* failed writes to the games table in one run
MaxSaveFailures == 1

\* board indexes the modelled callers place tiles on: the centre square,
\* its right neighbour and the square below that one
TurnIndexes == {112, 113, 128}

----------------------------------------------------------------------------
(* Tile, Square *)

NoChar == ""

Char(c) == [kind |-> "Char", char |-> c]

Blank(c) == [kind |-> "Blank", char |-> c]

BlankNone == Blank(NoChar)

\* Tile::as_char
TileAsChar(tile) == tile.char

SqBlank == [kind |-> "Blank", tile |-> BlankNone, mult |-> 0]

SqTile(tile) == [kind |-> "Tile", tile |-> tile, mult |-> 0]

SqLetterBonus(m) == [kind |-> "LetterBonus", tile |-> BlankNone, mult |-> m]

SqWordBonus(m) == [kind |-> "WordBonus", tile |-> BlankNone, mult |-> m]

\* the result of Vec::get beyond the end
NoSquare == [kind |-> "None", tile |-> BlankNone, mult |-> 0]

\* Square::get_char
SquareGetChar(square) ==
    IF square.kind = "Tile" THEN TileAsChar(square.tile) ELSE NoChar

\* score_char
ScoreChar(c) ==
    CASE c \in {"A", "E", "I", "L", "N", "O", "R", "S", "T", "U"} -> 1
      [] c \in {"D", "G"} -> 2
      [] c \in {"B", "C", "M", "P"} -> 3
      [] c \in {"F", "H", "V", "W", "Y"} -> 4
      [] c = "K" -> 5
      [] c \in {"J", "X"} -> 8
      [] c \in {"Q", "Z"} -> 10
      [] OTHER -> 0

\* score_tile (the free function)
ScoreTile(tile) ==
    IF tile.kind = "Char" THEN ScoreChar(tile.char) ELSE 0

----------------------------------------------------------------------------
(* Board *)

StandardBoardTokens ==
    << "3w", ".", ".", "2l", ".", ".", ".", "3w", ".", ".", ".", "2l", ".", ".", "3w",
       ".", "2w", ".", ".", ".", "3l", ".", ".", ".", "3l", ".", ".", ".", "2w", ".",
       ".", ".", "2w", ".", ".", ".", "2l", ".", "2l", ".", ".", ".", "2w", ".", ".",
       "2l", ".", ".", "2w", ".", ".", ".", "2l", ".", ".", ".", "2w", ".", ".", "2l",
       ".", ".", ".", ".", "2w", ".", ".", ".", ".", ".", "2w", ".", ".", ".", ".",
       ".", "3l", ".", ".", ".", "3l", ".", ".", ".", "3l", ".", ".", ".", "3l", ".",
       ".", ".", "2l", ".", ".", ".", "2l", ".", "2l", ".", ".", ".", "2l", ".", ".",
       "3w", ".", ".", "2l", ".", ".", ".", "2w", ".", ".", ".", "2l", ".", ".", "3w",
       ".", ".", "2l", ".", ".", ".", "2l", ".", "2l", ".", ".", ".", "2l", ".", ".",
       ".", "3l", ".", ".", ".", "3l", ".", ".", ".", "3l", ".", ".", ".", "3l", ".",
       ".", ".", ".", ".", "2w", ".", ".", ".", ".", ".", "2w", ".", ".", ".", ".",
       "2l", ".", ".", "2w", ".", ".", ".", "2l", ".", ".", ".", "2w", ".", ".", "2l",
       ".", ".", "2w", ".", ".", ".", "2l", ".", "2l", ".", ".", ".", "2w", ".", ".",
       ".", "2w", ".", ".", ".", "3l", ".", ".", ".", "3l", ".", ".", ".", "2w", ".",
       "3w", ".", ".", "2l", ".", ".", ".", "3w", ".", ".", ".", "2l", ".", ".", "3w" >>

\* one token of Board::parse
ParseToken(token) ==
    CASE token = "." -> SqBlank
      [] token = "3w" -> SqWordBonus(3)
      [] token = "2w" -> SqWordBonus(2)
      [] token = "3l" -> SqLetterBonus(3)
      [] token = "2l" -> SqLetterBonus(2)
      [] OTHER -> SqTile(Char(token))

\* Board::parse
ParseBoard(tokens) == [i \in 1..Len(tokens) |-> ParseToken(tokens[i])]

\* Board::standard
StandardBoard == ParseBoard(StandardBoardTokens)

\* Board::get_square, Vec::get
GetSquare(board, index) ==
    IF index >= 0 /\ index < Len(board) THEN board[index + 1] ELSE NoSquare

IsOccupied(board, index) == GetSquare(board, index).kind = "Tile"

----------------------------------------------------------------------------
(* Results of the engine's operations *)

Ok(v) == [tag |-> "Ok", err |-> "", detail |-> <<v>>]

Err(e, d) == [tag |-> "Err", err |-> e, detail |-> <<d>>]

\* todo!(), unwrap() on None, an index out of range: the call never returns
Panic(what) == [tag |-> "Panic", err |-> what, detail |-> <<>>]

----------------------------------------------------------------------------
(* Game: racks, bag, players *)

Last(s) == s[Len(s)]

Front(s) == SubSeq(s, 1, Len(s) - 1)

\* a fill_rack_at that draws from the front of the bag
RECURSIVE FillRackAtFromFront(_, _)
FillRackAtFromFront(g, index) ==
    IF Len(g.racks[index + 1]) < RACK_SIZE /\ Len(g.bag) > 0
    THEN FillRackAtFromFront([g EXCEPT !.racks[index + 1] = Append(@, Head(g.bag)),
                                       !.bag = Tail(g.bag)], index)
    ELSE g

\* Game::fill_rack_at
RECURSIVE FillRackAt(_, _)
FillRackAt(g, index) ==
    IF Len(g.racks[index + 1]) < RACK_SIZE /\ Len(g.bag) > 0
    THEN FillRackAt([g EXCEPT !.racks[index + 1] = Append(@, Last(g.bag)),
                              !.bag = Front(g.bag)], index)
    ELSE g

\* Iterator::position: the least of the positions that hit, 0 when none does
FirstIndex(hits) ==
    IF hits = {} THEN 0 ELSE CHOOSE i \in hits : \A j \in hits : i <= j

\* an add_player that lets players in whatever the lifecycle state
AddPlayerAnyState(g, player) ==
    LET existing == FirstIndex({k \in 1..Len(g.players) : g.players[k] = player})
    IN  IF existing # 0
        THEN [game |-> g, result |-> Ok(existing - 1)]
        ELSE [game |-> FillRackAt([g EXCEPT !.players = Append(@, player),
                                            !.scores = Append(@, <<>>),
                                            !.racks = Append(@, <<>>)],
                                  Len(g.players)),
              result |-> Ok(Len(g.players))]

\* an add_player that does not look for the name among the players
AddPlayerNoLookup(g, player) ==
    IF g.state # "Pre"
    THEN [game |-> g, result |-> Err("AlreadyStarted", "")]
    ELSE [game |-> FillRackAt([g EXCEPT !.players = Append(@, player),
                                        !.scores = Append(@, <<>>),
                                        !.racks = Append(@, <<>>)],
                              Len(g.players)),
          result |-> Ok(Len(g.players))]

\* an add_player that gives the new player no score history
AddPlayerNoScores(g, player) ==
    LET existing == FirstIndex({k \in 1..Len(g.players) : g.players[k] = player})
    IN  IF existing # 0
        THEN [game |-> g, result |-> Ok(existing - 1)]
        ELSE IF g.state # "Pre"
        THEN [game |-> g, result |-> Err("AlreadyStarted", "")]
        ELSE LET index == Len(g.players)
                 pushed == [g EXCEPT !.players = Append(@, player),
                                     !.racks = Append(@, <<>>)]
             IN  [game |-> FillRackAt(pushed, index), result |-> Ok(index)]

\* Game::add_player
AddPlayer(g, player) ==
    LET existing == FirstIndex({k \in 1..Len(g.players) : g.players[k] = player})
    IN  IF existing # 0
        THEN [game |-> g, result |-> Ok(existing - 1)]
        ELSE IF g.state # "Pre"
        THEN [game |-> g, result |-> Err("AlreadyStarted", "")]
        ELSE LET index == Len(g.players)
                 pushed == [g EXCEPT !.players = Append(@, player),
                                     !.scores = Append(@, <<>>),
                                     !.racks = Append(@, <<>>)]
             IN  [game |-> FillRackAt(pushed, index), result |-> Ok(index)]

\* an init_racks that deals every rack anew
RECURSIVE DealRacks(_)
DealRacks(g) ==
    IF Len(g.racks) < Len(g.players)
    THEN DealRacks(FillRackAt([g EXCEPT !.racks = Append(@, <<>>)], Len(g.racks)))
    ELSE g

InitRacksAnew(g) == DealRacks([g EXCEPT !.racks = <<>>])

\* Game::init_racks
RECURSIVE InitRacks(_)
InitRacks(g) ==
    IF Len(g.racks) < Len(g.players)
    THEN InitRacks(FillRackAt([g EXCEPT !.racks = Append(@, <<>>)], Len(g.racks)))
    ELSE g

\* an init_player_index whose range includes the number of players
InitPlayerIndexInclusive(g, drawn) == [g EXCEPT !.player_index = drawn + 1]

\* Game::init_player_index, drawn being the value gen_range returns
InitPlayerIndex(g, drawn) == [g EXCEPT !.player_index = drawn]

\* Game::start; gen_range panics on the empty range 0..0
Start(g, drawn) ==
    IF Len(g.players) = 0
    THEN [game |-> InitRacks(g), result |-> Panic("gen_range: empty range")]
    ELSE [game |-> [InitPlayerIndex(InitRacks(g), drawn) EXCEPT !.state = "Started"],
          result |-> Ok("")]

----------------------------------------------------------------------------
(* Turn *)

Placement(index, tile) == [index |-> index, tile |-> tile]

\* Turn::indexes
TurnIndexSeq(turn) == [i \in 1..Len(turn) |-> turn[i].index]

SeqRange(s) == {s[i] : i \in 1..Len(s)}

\* Turn::get_tile: the tile of the first placement on index; found is FALSE
\* for None
TurnGetTile(turn, index) ==
    LET at == FirstIndex({k \in 1..Len(turn) : turn[k].index = index})
    IN  IF at = 0 THEN [found |-> FALSE, tile |-> BlankNone]
        ELSE [found |-> TRUE, tile |-> turn[at].tile]

\* GetChar for Turn
TurnGetChar(turn, index) ==
    LET at == FirstIndex({k \in 1..Len(turn) : turn[k].index = index})
    IN  IF at = 0 THEN NoChar ELSE TileAsChar(turn[at].tile)

\* an is_bingo that wants more than seven tiles
IsBingoMoreThanSeven(turn) == Len(turn) > BINGO_SIZE

\* Turn::is_bingo
IsBingo(turn) == Len(turn) >= BINGO_SIZE

\* Turn::validate_unique_indexes
ValidateUniqueIndexes(turn) ==
    Len(turn) = Cardinality(SeqRange(TurnIndexSeq(turn)))

\* Turn::validate_linear
ValidateLinear(turn) ==
    \/ Cardinality({i % BOARD_SIZE : i \in SeqRange(TurnIndexSeq(turn))}) = 1
    \/ Cardinality({i \div BOARD_SIZE : i \in SeqRange(TurnIndexSeq(turn))}) = 1

\* Turn::validate
TurnValidate(turn) ==
    IF ~ValidateUniqueIndexes(turn) THEN Err("TurnIndexesNotUnique", "")
    ELSE IF ~ValidateLinear(turn) THEN Err("TurnNotLinear", "")
    ELSE Ok("")

----------------------------------------------------------------------------
(* Word scanner *)

\* GetChar for Board
BoardGetChar(board, index) == SquareGetChar(GetSquare(board, index))

\* Option::or_else on chars
OrElse(c, other) == IF c # NoChar THEN c ELSE other

\* GetChar for Overlay
OverlayGetChar(board, turn, index) ==
    OrElse(BoardGetChar(board, index), TurnGetChar(turn, index))

BoardSource(board) == [overlay |-> FALSE, board |-> board, turn |-> <<>>]

OverlaySource(board, turn) == [overlay |-> TRUE, board |-> board, turn |-> turn]

\* the GetChar trait, dispatched on the source's type
GetChar(source, index) ==
    IF source.overlay
    THEN OverlayGetChar(source.board, source.turn, index)
    ELSE BoardGetChar(source.board, index)

\* transpose_index
TransposeIndex(index, direction) ==
    IF direction = "Vertical"
    THEN (index \div BOARD_SIZE) + ((index % BOARD_SIZE) * BOARD_SIZE)
    ELSE index

\* Word::new, Word::push
EmptyWord == [indexes |-> <<>>, string |-> ""]

WordPush(word, index, c) ==
    [indexes |-> Append(word.indexes, index), string |-> word.string \o c]

NoCursor == -1

\* the least element of a non-empty set of integers
SetMin(S) == CHOOSE m \in S : \A n \in S : m <= n

\* Words::next, first inner loop: advance to the next non-empty square;
\* NoCursor when the cursor reaches INDEX_OVERFLOW on the way.  The loop
\* reads the square under the cursor before every advance, so it stops at
\* the first non-empty square among cursor .. INDEX_OVERFLOW - 1 (the
\* cursor's own square alone when the cursor is already past the end).
SkipEmpty(source, direction, cursor) ==
    LET last == IF cursor < INDEX_OVERFLOW THEN INDEX_OVERFLOW - 1 ELSE cursor
        filled == {c \in cursor..last :
                      GetChar(source, TransposeIndex(c, direction)) # NoChar}
    IN  IF filled = {} THEN NoCursor ELSE SetMin(filled)

\* Words::next, second inner loop: collect chars up to an empty square or
\* until the cursor wraps to a multiple of BOARD_SIZE
RECURSIVE CollectRun(_, _, _, _)
RECURSIVE CollectPushed(_, _, _, _)
CollectRun(source, direction, cursor, current) ==
    IF GetChar(source, TransposeIndex(cursor, direction)) = NoChar
    THEN [word |-> current, cursor |-> cursor]
    ELSE CollectPushed(source, direction, cursor + 1,
                       WordPush(current, TransposeIndex(cursor, direction),
                                GetChar(source, TransposeIndex(cursor, direction))))

\* ... after the push and the advance: the end-of-row break
CollectPushed(source, direction, cursor, current) ==
    IF cursor % BOARD_SIZE = 0
    THEN [word |-> current, cursor |-> cursor]
    ELSE CollectRun(source, direction, cursor, current)

\* Words::next: some is FALSE for None
RECURSIVE WordsNext(_, _, _)
RECURSIVE WordsNextFrom(_, _, _, _)
RECURSIVE WordsNextRun(_, _, _)
WordsNext(source, direction, cursor) ==
    WordsNextFrom(source, direction, cursor, SkipEmpty(source, direction, cursor))

\* ... from the non-empty square the first loop stopped at
WordsNextFrom(source, direction, cursor, start) ==
    IF start = NoCursor
    THEN [some |-> FALSE, word |-> EmptyWord, cursor |-> cursor]
    ELSE WordsNextRun(source, direction,
                      CollectRun(source, direction, start, EmptyWord))

\* ... with the run the second loop collected
WordsNextRun(source, direction, run) ==
    IF Len(run.word.indexes) > 1
    THEN [some |-> TRUE, word |-> run.word, cursor |-> run.cursor]
    ELSE WordsNext(source, direction, run.cursor + 1)

\* the iterator drained from a cursor on
RECURSIVE WordsFrom(_, _, _)
RECURSIVE WordsCons(_, _, _)
WordsFrom(source, direction, cursor) ==
    WordsCons(source, direction, WordsNext(source, direction, cursor))

WordsCons(source, direction, n) ==
    IF n.some
    THEN <<n.word>> \o WordsFrom(source, direction, n.cursor)
    ELSE <<>>

\* Words::horizontal, Words::vertical
WordsHorizontal(source) == WordsFrom(source, "Horizontal", 0)

WordsVertical(source) == WordsFrom(source, "Vertical", 0)

Directions == <<"Horizontal", "Vertical">>

\* a chain that yields the second iterator first
ChainSecondFirst(iters) == iters[2] \o iters[1]

\* Iterator::chain
Chain(iters) == iters[1] \o iters[2]

\* Board::words, and the same chain over an overlay: the horizontal pass,
\* then the vertical pass
Words(source) == Chain([d \in 1..2 |-> WordsFrom(source, Directions[d], 0)])

----------------------------------------------------------------------------
(* Overlay: new words and their scores *)

\* a retain that compares the letters of the words only
RetainByString(words, word) == SelectSeq(words, LAMBDA w : w.string # word.string)

\* Vec::retain(|w| *w != word)
Retain(words, word) == SelectSeq(words, LAMBDA w : w # word)

RECURSIVE RetainAll(_, _)
RetainAll(words, original) ==
    IF original = <<>> THEN words
    ELSE RetainAll(Retain(words, Head(original)), Tail(original))

\* Overlay::new_words: scanned is the pair (overlay's words, board's words)
RetainOriginal(scanned) == RetainAll(scanned[1], scanned[2])

NewWords(board, turn) ==
    RetainOriginal([k \in 1..2 |->
        Words(IF k = 1 THEN OverlaySource(board, turn) ELSE BoardSource(board))])

\* Overlay::letter_bonus
LetterBonus(board, index) ==
    IF GetSquare(board, index).kind = "LetterBonus"
    THEN GetSquare(board, index).mult
    ELSE 1

\* a word_bonus that assigns the multiplier where it should multiply by it
RECURSIVE WordBonusAssigned(_, _)
WordBonusAssigned(board, indexes) ==
    IF indexes = <<>> THEN 1
    ELSE IF GetSquare(board, Last(indexes)).kind = "WordBonus"
    THEN GetSquare(board, Last(indexes)).mult
    ELSE WordBonusAssigned(board, Front(indexes))

\* a word_bonus that reads the bonus squares of the board as it was laid
\* out, whether a tile lies on them or not
RECURSIVE WordBonusOfLayout(_, _)
WordBonusOfLayout(board, indexes) ==
    IF indexes = <<>> THEN 1
    ELSE (IF GetSquare(StandardBoard, Head(indexes)).kind = "WordBonus"
          THEN GetSquare(StandardBoard, Head(indexes)).mult ELSE 1)
         * WordBonusOfLayout(board, Tail(indexes))

\* Board::word_bonus
RECURSIVE WordBonus(_, _)
WordBonus(board, indexes) ==
    IF indexes = <<>> THEN 1
    ELSE (IF GetSquare(board, Head(indexes)).kind = "WordBonus"
          THEN GetSquare(board, Head(indexes)).mult ELSE 1)
         * WordBonus(board, Tail(indexes))

\* Overlay::get_tile: the turn's tile first, then the board's
OverlayGetTile(board, turn, index) ==
    IF TurnGetTile(turn, index).found
    THEN TurnGetTile(turn, index).tile
    ELSE GetSquare(board, index).tile

\* Overlay::score_tile
OverlayScoreTile(board, tile, index) ==
    ScoreTile(tile) * LetterBonus(board, index)

RECURSIVE SumTiles(_, _, _)
SumTiles(board, turn, indexes) ==
    IF indexes = <<>> THEN 0
    ELSE OverlayScoreTile(board, OverlayGetTile(board, turn, Head(indexes)),
                          Head(indexes))
         + SumTiles(board, turn, Tail(indexes))

\* Overlay::score_word
ScoreWord(board, turn, word) ==
    SumTiles(board, turn, word.indexes) * WordBonus(board, word.indexes)

\* Overlay::score, words being what new_words returned; a TurnScore is the
\* sequence of its (label, points) pairs
ScoreOf(board, turn, words) ==
    [i \in 1..Len(words) |-> <<words[i].string, ScoreWord(board, turn, words[i])>>]
    \o (IF IsBingo(turn) THEN << <<"*", BINGO_BONUS>> >> ELSE <<>>)

\* Overlay::score over every word of the overlay, the words the board held
\* already among them
ScoreAllWords(board, turn) ==
    ScoreOf(board, turn, Words(OverlaySource(board, turn)))

Score(board, turn) == ScoreOf(board, turn, NewWords(board, turn))

----------------------------------------------------------------------------
(* Game: turn validation *)

\* connected_indexes without the filters that keep to the original row
ConnectedIndexesAcrossRows(index) ==
    {x \in {index - 1} : x >= 0}
    \cup {index + 1}
    \cup {x \in {index - BOARD_SIZE} : x >= 0}
    \cup {x \in {index + BOARD_SIZE} : x < INDEX_OVERFLOW}

\* Game::connected_indexes
ConnectedIndexes(index) ==
    LET original_row == index \div BOARD_SIZE
    IN  {x \in {index - 1} : x >= 0 /\ x \div BOARD_SIZE = original_row}
        \cup {x \in {index + 1} : x \div BOARD_SIZE = original_row}
        \cup {x \in {index - BOARD_SIZE} : x >= 0}
        \cup {x \in {index + BOARD_SIZE} : x < INDEX_OVERFLOW}

\* Game::validate_connected
ValidateConnected(board, turn) ==
    \/ \E i \in 1..Len(turn) : turn[i].index = BOARD_CENTER
    \/ \E i \in 1..Len(turn) :
          \E connected \in ConnectedIndexes(turn[i].index) :
              IsOccupied(board, connected)

\* a closure for which a blank of the rack pays for any tile
TileMatchesAnyBlank(tile, rack_tile) == tile = rack_tile \/ rack_tile = BlankNone

\* the closure of spend_tiles_inner: does rack_tile pay for tile
TileMatches(tile, rack_tile) ==
    IF tile.kind = "Char" THEN tile = rack_tile
    ELSE IF tile.char # NoChar THEN rack_tile = BlankNone
    ELSE FALSE

RemoveAt(s, i) == SubSeq(s, 1, i - 1) \o SubSeq(s, i + 1, Len(s))

\* a spend_tiles_inner that takes the last matching tile of the rack
RECURSIVE SpendTilesInnerLast(_, _)
SpendTilesInnerLast(turn, rack) ==
    IF turn = <<>> THEN [result |-> Ok(""), rack |-> rack]
    ELSE LET tile == Head(turn).tile
             hits == {k \in 1..Len(rack) : TileMatches(tile, rack[k])}
         IN  IF hits = {}
             THEN [result |-> Err("NoTileToSpend", tile), rack |-> rack]
             ELSE SpendTilesInnerLast(Tail(turn),
                      RemoveAt(rack, CHOOSE i \in hits : \A j \in hits : j <= i))

\* Game::spend_tiles_inner
RECURSIVE SpendTilesInner(_, _)
SpendTilesInner(turn, rack) ==
    IF turn = <<>> THEN [result |-> Ok(""), rack |-> rack]
    ELSE LET tile == Head(turn).tile
             index == FirstIndex({k \in 1..Len(rack) : TileMatches(tile, rack[k])})
         IN  IF index = 0
             THEN [result |-> Err("NoTileToSpend", tile), rack |-> rack]
             ELSE SpendTilesInner(Tail(turn), RemoveAt(rack, index))

\* a validate_turn that looks at the squares before it looks at the turn
ValidateTurnOccupiedFirst(g, turn) ==
    LET occupied == FirstIndex({k \in 1..Len(turn) : IsOccupied(g.board, turn[k].index)})
    IN  IF occupied # 0 THEN Err("SquareOccupied", turn[occupied].index)
        ELSE IF TurnValidate(turn).tag # "Ok" THEN TurnValidate(turn)
        ELSE IF ~ValidateConnected(g.board, turn) THEN Err("NotConnected", "")
        ELSE SpendTilesInner(turn, g.racks[g.player_index + 1]).result

\* Game::validate_turn
ValidateTurn(g, turn) ==
    LET occupied == FirstIndex({k \in 1..Len(turn) : IsOccupied(g.board, turn[k].index)})
    IN  IF TurnValidate(turn).tag # "Ok" THEN TurnValidate(turn)
        ELSE IF occupied # 0 THEN Err("SquareOccupied", turn[occupied].index)
        ELSE IF ~ValidateConnected(g.board, turn) THEN Err("NotConnected", "")
        ELSE SpendTilesInner(turn, g.racks[g.player_index + 1]).result

----------------------------------------------------------------------------
(* Dictionary *)

\* the word list behind dictionary::dictionary
Dictionary == {"AA", "AM", "MA", "AMA", "MAA", "MAM"}

\* dictionary::illegal_words
IllegalWords(words) == SelectSeq(words, LAMBDA word : word \notin Dictionary)

WordStrings(words) == [i \in 1..Len(words) |-> words[i].string]

\* Overlay::validate_words, illegal_words being what the dictionary returned
ValidateWordsOf(illegal_words) ==
    IF illegal_words = <<>> THEN Ok("") ELSE Err("IllegalWords", illegal_words)

ValidateWords(board, turn) ==
    ValidateWordsOf(IllegalWords(WordStrings(NewWords(board, turn))))

----------------------------------------------------------------------------
(* Game: play *)

\* a score_turn that records the score before it asks the dictionary
ScoreTurnOfPushFirst(g, turn, words) ==
    [game |-> [g EXCEPT !.scores[g.player_index + 1] =
                            Append(@, ScoreOf(g.board, turn, words))],
     result |-> ValidateWordsOf(IllegalWords(WordStrings(words)))]

\* Game::score_turn, words being what Overlay::new_words returns (to
\* validate_words and to score alike: it reads the board and the turn only)
ScoreTurnOf(g, turn, words) ==
    IF IllegalWords(WordStrings(words)) # <<>>
    THEN [game |-> g,
          result |-> ValidateWordsOf(IllegalWords(WordStrings(words)))]
    ELSE [game |-> [g EXCEPT !.scores[g.player_index + 1] =
                                 Append(@, ScoreOf(g.board, turn, words))],
          result |-> Ok("")]

ScoreTurn(g, turn) == ScoreTurnOf(g, turn, NewWords(g.board, turn))

\* a next_player that forgets to wrap around
NextPlayerNoWrap(g) == [g EXCEPT !.player_index = g.player_index + 1]

\* Game::next_player
NextPlayer(g) ==
    [g EXCEPT !.player_index = (g.player_index + 1) % Len(g.players)]

\* Game::spend_tiles
SpendTiles(g, turn) ==
    LET spent == SpendTilesInner(turn, g.racks[g.player_index + 1])
    IN  IF spent.result.tag # "Ok"
        THEN [game |-> g, result |-> spent.result]
        ELSE [game |-> [g EXCEPT !.racks[g.player_index + 1] = spent.rack],
              result |-> Ok("")]

\* a commit_turn that writes the first placement only
CommitTurnFirstOnly(board, turn) ==
    IF turn = <<>> THEN [board |-> board, result |-> Ok("")]
    ELSE IF Head(turn).index >= Len(board)
    THEN [board |-> board, result |-> Panic("index out of bounds")]
    ELSE [board |-> [board EXCEPT ![Head(turn).index + 1] = SqTile(Head(turn).tile)],
          result |-> Ok("")]

\* Board::commit_turn; indexing the vector beyond its end panics, the
\* squares written before that stay written
RECURSIVE CommitTurn(_, _)
CommitTurn(board, turn) ==
    IF turn = <<>> THEN [board |-> board, result |-> Ok("")]
    ELSE IF Head(turn).index >= Len(board)
    THEN [board |-> board, result |-> Panic("index out of bounds")]
    ELSE CommitTurn([board EXCEPT ![Head(turn).index + 1] = SqTile(Head(turn).tile)],
                    Tail(turn))

RECURSIVE SumScoreTiles(_)
SumScoreTiles(rack) ==
    IF rack = <<>> THEN 0 ELSE ScoreTile(Head(rack)) + SumScoreTiles(Tail(rack))

RemainingTilesLabel == "(remaining tiles)"

\* a check_game_over that ends the game as soon as the bag or a rack is empty
CheckGameOverEither(g) ==
    IF g.bag = <<>> \/ \E i \in 1..Len(g.racks) : g.racks[i] = <<>>
    THEN [g EXCEPT !.state = "Over"]
    ELSE g

\* a check_game_over that adds the remaining tiles instead of deducting them
CheckGameOverAdding(g) ==
    IF g.bag = <<>> /\ \E i \in 1..Len(g.racks) : g.racks[i] = <<>>
    THEN [g EXCEPT !.state = "Over",
                   !.scores = [index \in 1..Len(g.scores) |->
                       IF index <= Len(g.racks) /\ SumScoreTiles(g.racks[index]) > 0
                       THEN Append(g.scores[index],
                                   << <<RemainingTilesLabel,
                                        SumScoreTiles(g.racks[index])>> >>)
                       ELSE g.scores[index]]]
    ELSE g

\* Game::check_game_over
CheckGameOver(g) ==
    IF g.bag = <<>> /\ \E i \in 1..Len(g.racks) : g.racks[i] = <<>>
    THEN [g EXCEPT !.state = "Over",
                   !.scores = [index \in 1..Len(g.scores) |->
                       IF index <= Len(g.racks) /\ SumScoreTiles(g.racks[index]) > 0
                       THEN Append(g.scores[index],
                                   << <<RemainingTilesLabel,
                                        0 - SumScoreTiles(g.racks[index])>> >>)
                       ELSE g.scores[index]]]
    ELSE g

\* Game::play after commit_turn returned
PlayCommitted(g, committed) ==
    IF committed.result.tag # "Ok"
    THEN [game |-> [g EXCEPT !.board = committed.board],
          result |-> committed.result, consulted |-> TRUE]
    ELSE [game |-> CheckGameOver(NextPlayer(
                       FillRackAt([g EXCEPT !.board = committed.board],
                                  g.player_index))),
          result |-> Ok(""), consulted |-> TRUE]

\* Game::play after spend_tiles returned
PlaySpent(turn, spent) ==
    IF spent.result.tag # "Ok"
    THEN [game |-> spent.game, result |-> spent.result, consulted |-> TRUE]
    ELSE PlayCommitted(spent.game, CommitTurn(spent.game.board, turn))

\* Game::play after score_turn returned
PlayScored(turn, scored) ==
    IF scored.result.tag # "Ok"
    THEN [game |-> scored.game, result |-> scored.result, consulted |-> TRUE]
    ELSE PlaySpent(turn, SpendTiles(scored.game, turn))

\* Game::play after validate_turn returned
PlayValidated(g, turn, valid) ==
    IF valid.tag # "Ok"
    THEN [game |-> g, result |-> valid, consulted |-> FALSE]
    ELSE PlayScored(turn, ScoreTurn(g, turn))

\* Game::play; consulted tells whether the dictionary was asked
Play(g, turn) ==
    IF g.state = "Pre"
    THEN [game |-> g, result |-> Err("NotStarted", ""), consulted |-> FALSE]
    ELSE IF g.state = "Over"
    THEN [game |-> g, result |-> Err("GameOver", ""), consulted |-> FALSE]
    ELSE PlayValidated(g, turn, ValidateTurn(g, turn))

\* Game::swap
Swap(g, turn) == [game |-> g, result |-> Panic("todo"), consulted |-> FALSE]

\* Game::pass refusing already with as many tiles in the bag as the limit
PassFromLimit(g) ==
    IF Len(g.bag) >= PASS_BAG_LIMIT
    THEN [game |-> g, result |-> Err("CannotPass", ""), consulted |-> FALSE]
    ELSE [game |-> g, result |-> Panic("todo"), consulted |-> FALSE]

\* Game::pass
Pass(g) ==
    IF Len(g.bag) > PASS_BAG_LIMIT
    THEN [game |-> g, result |-> Err("CannotPass", ""), consulted |-> FALSE]
    ELSE [game |-> g, result |-> Panic("todo"), consulted |-> FALSE]

----------------------------------------------------------------------------
(* Persistence and the channel layer (main.rs) *)

\* a row of the games table
SavedGame(id, data) == [id |-> id, data |-> data]

\* Game::create: the row holds the game as it is before pkid is set
Create(g, db) == Append(db, SavedGame(Len(db) + 1, g))

\* Game::update: UPDATE ... WHERE id = pkid
Update(g, db) ==
    [i \in 1..Len(db) |-> IF db[i].id = g.pkid[1] THEN SavedGame(db[i].id, g) ELSE db[i]]

\* Game::persist; written is FALSE when the query fails
Persist(g, db, written) ==
    IF ~written
    THEN [game |-> g, db |-> db, result |-> Err("Sqlx", "")]
    ELSE IF g.pkid = <<>>
    THEN [game |-> [g EXCEPT !.pkid = <<Len(db) + 1>>], db |-> Create(g, db),
          result |-> Ok(Len(db) + 1)]
    ELSE [game |-> g, db |-> Update(g, db), result |-> Ok(g.pkid[1])]

\* GameChannel::save_state
SaveState(g, ch, written) ==
    [game |-> Persist(g, ch.db, written).game,
     channel |-> [ch EXCEPT !.db = Persist(g, ch.db, written).db,
                            !.save_failures = IF written THEN @ ELSE @ + 1],
     result |-> Persist(g, ch.db, written).result]

\* the match on the event in GameChannel::play, played being what Game::play
\* returns for the turn
Dispatch(event, g, turn, played) ==
    IF event = "play" THEN played
    ELSE IF event = "swap" THEN Swap(g, turn)
    ELSE Pass(g)

\* GameChannel::play after the engine returned: the state is saved even if
\* an error is returned, and an error of the save replaces the result
ChannelPlaySaved(ch, r, saved) ==
    [game |-> saved.game, channel |-> saved.channel,
     result |-> IF saved.result.tag # "Ok" THEN saved.result ELSE r.result,
     consulted |-> r.consulted]

ChannelPlayDispatched(ch, r, written) ==
    IF r.result.tag = "Panic"
    THEN [game |-> r.game, channel |-> ch, result |-> r.result,
          consulted |-> r.consulted]
    ELSE ChannelPlaySaved(ch, r, SaveState(r.game, ch, written))

\* GameChannel::play for a payload that converts into turn
ChannelPlay(g, ch, event, turn, player_index, played, written) ==
    IF g.player_index # player_index
    THEN [game |-> g, channel |-> ch, result |-> Err("NotYourTurn", ""),
          consulted |-> FALSE]
    ELSE ChannelPlayDispatched(ch, Dispatch(event, g, turn, played), written)

\* socket_state: the PlayerIndex extension kept per connection token
HasPlayerIndex(ch, token) == \E e \in ch.socket_state : e[1] = token

PlayerIndexOf(ch, token) == (CHOOSE e \in ch.socket_state : e[1] = token)[2]

InsertPlayerIndex(ch, token, index) ==
    [ch EXCEPT !.socket_state =
        {e \in @ : e[1] # token} \cup {<<token, index>>}]

\* Channel::handle_message, events play, swap and pass
HandlePlayEvent(g, ch, token, event, turn, played, written) ==
    IF ~HasPlayerIndex(ch, token)
    THEN [game |-> g, channel |-> ch, result |-> Panic("unwrap on None"),
          consulted |-> FALSE]
    ELSE ChannelPlay(g, ch, event, turn, PlayerIndexOf(ch, token), played, written)

\* Channel::handle_message, event start: both results are dropped
HandleStartSaved(started, saved) ==
    [game |-> saved.game, channel |-> saved.channel, result |-> Ok(""),
     consulted |-> FALSE]

HandleStartEvent(g, ch, drawn, written) ==
    IF ~ch.loaded
    THEN [game |-> g, channel |-> ch, result |-> Panic("unwrap on None"),
          consulted |-> FALSE]
    ELSE IF Start(g, drawn).result.tag = "Panic"
    THEN [game |-> Start(g, drawn).game, channel |-> ch,
          result |-> Start(g, drawn).result, consulted |-> FALSE]
    ELSE HandleStartSaved(Start(g, drawn),
                          SaveState(Start(g, drawn).game, ch, written))

\* Channel::handle_join for a token of a valid session of user player; the
\* game is fetched on the first join
HandleJoinAdded(ch, token, added, saved) ==
    IF added.result.tag # "Ok"
    THEN [game |-> added.game, channel |-> ch, result |-> Ok(""),
          consulted |-> FALSE]
    ELSE [game |-> saved.game,
          channel |-> InsertPlayerIndex(saved.channel, token, added.result.detail[1]),
          result |-> Ok(""), consulted |-> FALSE]

HandleJoinWith(ch, token, added, written) ==
    HandleJoinAdded(ch, token, added, SaveState(added.game, ch, written))

HandleJoin(g, ch, token, player, written) ==
    HandleJoinWith([ch EXCEPT !.loaded = TRUE], token, AddPlayer(g, player), written)

\* Channel::handle_leave
HandleLeave(ch, token) ==
    [ch EXCEPT !.socket_state = {e \in @ : e[1] # token}]

----------------------------------------------------------------------------
(* The engine as a state machine: a caller makes one call at a time, the   *)
(* call runs to completion, the caller looks at the result and goes on.    *)

VARIABLES
    game,   \* the Game
    prev,   \* the Game as it was when the call observed in last began
    last,   \* the call that has just returned and its result, or NoCall
    alive,  \* FALSE once a call has panicked
    channel \* the GameChannel around the Game, and the games table

vars == <<game, prev, last, alive, channel>>

\* tiles the modelled callers put into turns
TurnTiles == {Char("A"), Char("M"), Blank("A")}

Placements == {Placement(i, t) : i \in TurnIndexes, t \in TurnTiles}

RECURSIVE SeqsUpTo(_, _)
SeqsUpTo(S, n) ==
    IF n = 0 THEN {<<>>}
    ELSE LET shorter == SeqsUpTo(S, n - 1)
         IN  shorter \cup {Append(s, x) : s \in {r \in shorter : Len(r) = n - 1}, x \in S}

Turns == SeqsUpTo(Placements, MaxTurnLen)

\* bags a game is constructed with, bottom first (tiles are drawn from the
\* end): the last tiles of a shuffled bag
InitBags ==
    { <<BlankNone, Char("A")>>,
      <<Char("M"), Char("A"), Char("A"), Char("A"), Char("A"), Char("A"),
        Char("A"), Char("M"), Char("A")>>,
      <<Char("A"), Char("M"), Char("A"), Char("A"), Char("A"), Char("A"),
        Char("A"), Char("A"), Char("M"), Char("A"), Char("A"), Char("A"),
        Char("A"), Char("A"), Char("M")>> }

\* the Game that Game::fetch builds when nothing is stored
NewGame(bag) ==
    [board |-> StandardBoard,
     players |-> <<>>,
     player_index |-> 0,
     bag |-> bag,
     racks |-> <<>>,
     scores |-> <<>>,
     state |-> "Pre",
     pkid |-> <<>>]

\* the GameChannel as constructed: game is None, no connection, no row
NewChannel ==
    [loaded |-> FALSE, socket_state |-> {}, db |-> <<>>, save_failures |-> 0]

NoCall == [op |-> "none", player |-> "", turn |-> <<>>, result |-> Ok(""),
           consulted |-> FALSE]

Call(op, player, turn, r) ==
    [op |-> op, player |-> player, turn |-> turn, result |-> r.result,
     consulted |-> r.consulted]

Idle == alive /\ last = NoCall

\* the effect of a call that returned r
Returned(op, player, turn, r) ==
    /\ prev' = game
    /\ game' = r.game
    /\ last' = Call(op, player, turn, r)
    /\ alive' = (r.result.tag # "Panic")
    /\ UNCHANGED channel

Init ==
    /\ \E bag \in InitBags : game = NewGame(bag)
    /\ prev = game
    /\ last = NoCall
    /\ alive = TRUE
    /\ channel = NewChannel

CallAddPlayer ==
    /\ Idle
    /\ \E player \in Names :
          LET r == AddPlayer(game, player)
          IN  Returned("add_player", player, <<>>,
                       [game |-> r.game, result |-> r.result, consulted |-> FALSE])

CallStart ==
    /\ Idle
    /\ \E drawn \in 0..(IF Len(game.players) = 0 THEN 0 ELSE Len(game.players) - 1) :
          LET r == Start(game, drawn)
          IN  Returned("start", "", <<>>,
                       [game |-> r.game, result |-> r.result, consulted |-> FALSE])

CallPlay ==
    /\ Idle
    /\ \E turn \in Turns : Returned("play", "", turn, Play(game, turn))

CallSwap ==
    /\ Idle
    /\ \E turn \in {t \in Turns : Len(t) <= 1} :
          Returned("swap", "", turn, Swap(game, turn))

CallPass ==
    /\ Idle
    /\ Returned("pass", "", <<>>, Pass(game))

\* the caller has seen the result and is ready for the next call
Return ==
    /\ alive
    /\ last # NoCall
    /\ last' = NoCall
    /\ prev' = game
    /\ UNCHANGED <<game, alive, channel>>

Next ==
    \/ CallAddPlayer
    \/ CallStart
    \/ CallPlay
    \/ CallSwap
    \/ CallPass
    \/ Return

Spec == Init /\ [][Next]_vars

----------------------------------------------------------------------------
(* The channel as a state machine: the actor handles one message at a      *)
(* time; game holds what Game::fetch returns until the first join loads it *)

Tokens == {"t1", "t2"}

\* Session::read_token and User::find: the user behind a token
SessionUser(token) == IF token = "t1" THEN "Frankie" ELSE "Ada"

\* Tile::from_str yields Tile::Char only
WireTurns == {t \in Turns : \A i \in 1..Len(t) : t[i].tile.kind = "Char"}

\* outcomes of a write to the games table
Writes == {TRUE} \cup {w \in {FALSE} : channel.save_failures < MaxSaveFailures}

\* the effect of a handler that returned r
Handled(op, token, turn, r) ==
    /\ prev' = game
    /\ game' = r.game
    /\ channel' = r.channel
    /\ last' = Call(op, token, turn, r)
    /\ alive' = (r.result.tag # "Panic")

OnJoin ==
    /\ Idle
    /\ \E token \in Tokens, written \in Writes :
          Handled("handle_join", token, <<>>,
                  HandleJoin(game, channel, token, SessionUser(token), written))

OnStart ==
    /\ Idle
    /\ \E token \in Tokens, written \in Writes :
          \E drawn \in 0..(IF Len(game.players) = 0 THEN 0 ELSE Len(game.players) - 1) :
              Handled("start", token, <<>>,
                      HandleStartEvent(game, channel, drawn, written))

OnPlay ==
    /\ Idle
    /\ \E token \in Tokens, written \in Writes :
          \E event \in {"play", "swap", "pass"}, turn \in WireTurns :
              /\ event = "swap" => Len(turn) <= 1
              /\ event = "pass" => Len(turn) = 0
              /\ Handled(event, token, turn,
                         HandlePlayEvent(game, channel, token, event, turn,
                                         Play(game, turn), written))

OnLeave ==
    /\ Idle
    /\ \E token \in Tokens :
          Handled("handle_leave", token, <<>>,
                  [game |-> game, channel |-> HandleLeave(channel, token),
                   result |-> Ok(""), consulted |-> FALSE])

ChannelNext ==
    \/ OnJoin
    \/ OnStart
    \/ OnPlay
    \/ OnLeave
    \/ Return

\* the room's game is fetched from an empty games table
ChannelInit ==
    /\ game = NewGame(<<Char("M"), Char("A"), Char("A"), Char("A"), Char("A"),
                        Char("A"), Char("A"), Char("M"), Char("A")>>)
    /\ prev = game
    /\ last = NoCall
    /\ alive = TRUE
    /\ channel = NewChannel

ChannelSpec == ChannelInit /\ [][ChannelNext]_vars

----------------------------------------------------------------------------
(* The overlay as a state machine: Board::new_words and Overlay::score are *)
(* pure functions of a board and a turn; the board is drawn at the start,  *)
(* each call draws a turn and leaves what the function returned in last.   *)

\* test_board_a
TestBoardATokens ==
    << "3w", ".", ".", "2l", ".", ".", ".", "3w", ".", ".", ".", "2l", ".", "H", "I",
       ".", "2w", ".", ".", ".", "3l", ".", ".", ".", "3l", ".", ".", ".", "2w", ".",
       ".", ".", "2w", ".", ".", ".", "2l", ".", "2l", ".", ".", ".", "2w", ".", ".",
       "2l", ".", ".", "2w", ".", ".", ".", "2l", ".", ".", ".", "2w", ".", ".", "2l",
       ".", ".", ".", ".", "2w", ".", ".", ".", ".", ".", "2w", ".", ".", ".", ".",
       ".", "3l", ".", ".", ".", "3l", ".", ".", ".", "3l", ".", ".", ".", "3l", ".",
       ".", ".", "2l", ".", ".", ".", "2l", ".", "2l", ".", ".", ".", "2l", ".", ".",
       "3w", ".", ".", "2l", ".", ".", ".", "A", "M", "P", "L", "E", ".", ".", "3w",
       ".", ".", "2l", ".", ".", ".", "2l", ".", "A", "A", ".", ".", "2l", ".", ".",
       ".", "3l", ".", ".", ".", "H", "A", "P", "P", "Y", ".", ".", ".", "3l", ".",
       ".", ".", ".", ".", "2w", ".", ".", ".", ".", "E", "2w", ".", ".", ".", ".",
       "2l", ".", ".", "2w", ".", ".", ".", "2l", ".", "R", ".", "2w", ".", ".", "O",
       ".", ".", "2w", ".", ".", ".", "2l", ".", "2l", ".", ".", ".", "2w", ".", "O",
       ".", "2w", ".", ".", ".", "3l", ".", ".", ".", "3l", ".", ".", ".", "2w", "Z",
       "3w", ".", ".", "2l", ".", ".", ".", "3w", ".", ".", ".", "2l", ".", ".", "E" >>

\* the board after the turns were committed to it one after the other
RECURSIVE Committed(_, _)
Committed(board, turns) ==
    IF turns = <<>> THEN board
    ELSE Committed(CommitTurn(board, Head(turns)).board, Tail(turns))

\* a turn that lays the letters on consecutive squares of a row
Across(start, letters) ==
    [k \in 1..Len(letters) |-> Placement(start + k - 1, Char(letters[k]))]

\* a turn that lays the letters on consecutive squares of a column
Down(start, letters) ==
    [k \in 1..Len(letters) |-> Placement(start + (k - 1) * BOARD_SIZE, Char(letters[k]))]

\* test_game_play_with_blanks: turn_a, with a blank for the M, and turn_b
TurnA ==
    << Placement(111, Char("S")), Placement(112, Blank("M")),
       Placement(113, Char("A")), Placement(114, Char("R")),
       Placement(115, Char("T")) >>

TurnB == << Placement(127, Char("A")), Placement(128, Char("X")) >>

\* test_board_new_words, test_overlay_score_turn
TurnSLT ==
    << Placement(111, Char("S")), Placement(126, Char("L")),
       Placement(156, Char("T")) >>

\* the board of test_game_play_with_blanks after turn_a
SmartBoard == Committed(StandardBoard, <<TurnA>>)

\* AM twice in the rows around the centre: at 97, 98 and at 110, 111
TwinsBoard == Committed(StandardBoard, <<Across(97, <<"A", "M">>), Across(110, <<"A", "M">>)>>)

\* a word from the first square of the second row, and a word down the
\* last column from the second row
EdgeBoard == Committed(StandardBoard, <<Across(15, <<"A", "M", "A">>), Down(29, <<"A", "M">>)>>)

\* six tiles between the word bonuses of the first row
TopRowBoard == Committed(StandardBoard, <<Across(1, <<"M", "A", "M", "A", "M", "A">>)>>)

OverlayBoards ==
    {StandardBoard, ParseBoard(TestBoardATokens), SmartBoard, TwinsBoard,
     EdgeBoard, TopRowBoard}

\* turns beyond those of Turns: the spec's example, a turn of seven tiles
\* over two word bonuses, the turns of the tests, a word equal to one of
\* test_board_a, a tile on the last square of the first row, and the two
\* ends of the first row
OverlayTurns ==
    Turns \cup
    { Across(112, <<"M", "A", "R">>),
      Across(64, <<"A", "M", "A", "A", "A", "A", "M">>),
      TurnA, TurnB, TurnSLT,
      Across(0, <<"H", "I">>),
      <<Placement(14, Char("M"))>>,
      <<Placement(0, Char("A")), Placement(7, Char("M"))>> }

OverlayInit ==
    /\ \E board \in OverlayBoards : game = [NewGame(<<>>) EXCEPT !.board = board]
    /\ prev = game
    /\ last = NoCall
    /\ alive = TRUE
    /\ channel = NewChannel

\* what a pure function of the board returned
Value(g, v) == [game |-> g, result |-> Ok(v), consulted |-> FALSE]

CallNewWords ==
    /\ Idle
    /\ \E turn \in OverlayTurns :
          Returned("new_words", "", turn, Value(game, NewWords(game.board, turn)))

CallScore ==
    /\ Idle
    /\ \E turn \in OverlayTurns :
          Returned("score", "", turn, Value(game, Score(game.board, turn)))

OverlayNext ==
    \/ CallNewWords
    \/ CallScore
    \/ Return

OverlaySpec == OverlayInit /\ [][OverlayNext]_vars

----------------------------------------------------------------------------
(* The scanner as a state machine: Words::horizontal(source) chained with  *)
(* Words::vertical(source), drained over a board with a turn laid on it    *)
(* (the board alone for the empty turn).                                   *)

\* the cursor of the iterator after each call of Words::next that returned
\* a word, from a cursor on
RECURSIVE CursorsFrom(_, _, _)
RECURSIVE CursorsCons(_, _, _)
CursorsFrom(source, direction, cursor) ==
    CursorsCons(source, direction, WordsNext(source, direction, cursor))

CursorsCons(source, direction, n) ==
    IF n.some
    THEN <<n.cursor>> \o CursorsFrom(source, direction, n.cursor)
    ELSE <<>>

\* the source a scan reads: the board, or the overlay of a turn on it
SourceOf(board, turn) ==
    IF turn = <<>> THEN BoardSource(board) ELSE OverlaySource(board, turn)

\* the turns of the overlay, and a word down the first column from the
\* second row
ScanTurns == OverlayTurns \cup {Down(15, <<"A", "M">>)}

\* one drained scan: the words, and per direction the cursors they left
Scan(source) ==
    << Words(source), [d \in 1..2 |-> CursorsFrom(source, Directions[d], 0)] >>

CallWords ==
    /\ Idle
    /\ \E turn \in ScanTurns :
          Returned("words", "", turn, Value(game, Scan(SourceOf(game.board, turn))))

ScanNext ==
    \/ CallWords
    \/ Return

ScanSpec == OverlayInit /\ [][ScanNext]_vars

----------------------------------------------------------------------------
(* Turn validation as a state machine: Game::validate_turn reads the       *)
(* board and the acting player's rack of a started game and changes        *)
(* nothing; the game is drawn at the start, each call draws a turn.        *)

\* squares a turn is tried on: the corners of the first row, the first
\* square of the fourth row, a square next to the second row's word, a
\* square away from everything, and the centre
ValidateIndexes == {0, 14, 18, 45, 100, 112}

ValidateTiles == {Char("A"), Char("M"), Blank("A"), BlankNone}

ValidateTurns ==
    SeqsUpTo({Placement(i, t) : i \in ValidateIndexes, t \in ValidateTiles},
             MaxTurnLen)

\* racks of the acting player: letters only, a letter and a blank, letters
\* twice over and a blank, blanks only
ValidateRacks ==
    { <<Char("A"), Char("M")>>,
      <<Char("A"), BlankNone>>,
      <<Char("A"), Char("A"), Char("M"), BlankNone>>,
      <<BlankNone, BlankNone>> }

\* a game of one player in the middle of play
GameInPlay(board, rack) ==
    [NewGame(<<>>) EXCEPT !.board = board,
                          !.players = <<"Frankie">>,
                          !.racks = <<rack>>,
                          !.scores = << <<>> >>,
                          !.state = "Started"]

ValidateInit ==
    /\ \E board \in {StandardBoard, EdgeBoard}, rack \in ValidateRacks :
          game = GameInPlay(board, rack)
    /\ prev = game
    /\ last = NoCall
    /\ alive = TRUE
    /\ channel = NewChannel

\* Game::propose, the callee of GameChannel::propose: the TurnScore of the
\* overlay of the game's board and the turn, the game read only
Propose(g, turn) == Value(g, Score(g.board, turn))

CallValidateTurn ==
    /\ Idle
    /\ \E turn \in ValidateTurns :
          Returned("validate_turn", "", turn,
                   [game |-> game, result |-> ValidateTurn(game, turn),
                    consulted |-> FALSE])

ValidateNext ==
    \/ CallValidateTurn
    \/ Return

ValidateSpec == ValidateInit /\ [][ValidateNext]_vars

----------------------------------------------------------------------------
(* The preview of a turn as a state machine: GameChannel::propose hands    *)
(* the turn to Game::propose of a game in play.                            *)

\* squares a previewed turn is laid on: one that holds a tile of the second
\* row's word, the free one next to that word, and the centre
ProposeIndexes == {16, 18, 112}

ProposeTurns ==
    SeqsUpTo({Placement(i, t) : i \in ProposeIndexes, t \in ValidateTiles},
             MaxTurnLen)

\* a game in play with the board empty or holding two words, the acting
\* rack without or with a blank
ProposeInit ==
    /\ \E board \in {StandardBoard, EdgeBoard},
          rack \in {<<Char("A"), Char("M")>>,
                    <<Char("A"), Char("A"), Char("M"), BlankNone>>} :
          game = GameInPlay(board, rack)
    /\ prev = game
    /\ last = NoCall
    /\ alive = TRUE
    /\ channel = NewChannel

CallPropose ==
    /\ Idle
    /\ \E turn \in ProposeTurns :
          Returned("propose", "", turn, Propose(game, turn))

ProposeNext ==
    \/ CallPropose
    \/ Return

ProposeSpec == ProposeInit /\ [][ProposeNext]_vars

----------------------------------------------------------------------------
(* The bag as constructed: Bag::standard fills a vector from the table of  *)
(* counts and shuffles it; Game::fetch puts it into the game it builds     *)
(* when nothing is stored.                                                 *)

\* the vector counts of Bag::standard
StandardCounts ==
    << <<Char("A"), 9>>, <<Char("B"), 2>>, <<Char("C"), 2>>,
      <<Char("D"), 4>>, <<Char("E"), 12>>, <<Char("F"), 2>>,
      <<Char("G"), 3>>, <<Char("H"), 2>>, <<Char("I"), 9>>,
      <<Char("J"), 1>>, <<Char("K"), 1>>, <<Char("L"), 4>>,
      <<Char("M"), 2>>, <<Char("N"), 6>>, <<Char("O"), 8>>,
      <<Char("P"), 2>>, <<Char("Q"), 1>>, <<Char("R"), 6>>,
      <<Char("S"), 4>>, <<Char("T"), 6>>, <<Char("U"), 4>>,
      <<Char("V"), 2>>, <<Char("W"), 2>>, <<Char("X"), 1>>,
      <<Char("Y"), 2>>, <<Char("Z"), 1>>, <<BlankNone, 2>> >>

\* the values a Rust range low..high iterates over: high is excluded
RangeExclusive(low, high) == low..(high - 1)

\* the inner loop: one push of the letter for each value of 1..count
Pushes(letter, count) ==
    [k \in 1..Cardinality(RangeExclusive(1, count)) |-> letter]

\* the outer loop over counts, the bag before it is shuffled
RECURSIVE Filled(_)
Filled(counts) ==
    IF counts = <<>> THEN <<>>
    ELSE Pushes(Head(counts)[1], Head(counts)[2]) \o Filled(Tail(counts))

\* bag.shuffle(&mut thread_rng()): some permutation of the bag; the ones
\* drawn here are the rotations of the bag and of the bag reversed
Rotated(bag, k) == SubSeq(bag, k + 1, Len(bag)) \o SubSeq(bag, 1, k)

Reversed(bag) == [k \in 1..Len(bag) |-> bag[Len(bag) + 1 - k]]

Shuffles(bag) ==
    {Rotated(bag, k) : k \in 0..(Len(bag) - 1)}
    \cup {Rotated(Reversed(bag), k) : k \in 0..(Len(bag) - 1)}

\* Bag::standard
BagStandard == Shuffles(Filled(StandardCounts))

BagInit ==
    /\ \E bag \in BagStandard : game = NewGame(bag)
    /\ prev = game
    /\ last = NoCall
    /\ alive = TRUE
    /\ channel = NewChannel

CallBagStandard ==
    /\ Idle
    /\ \E bag \in BagStandard : Returned("standard", "", <<>>, Value(game, bag))

BagNext ==
    \/ CallBagStandard
    \/ Return

BagSpec == BagInit /\ [][BagNext]_vars

----------------------------------------------------------------------------
(* Game::play as the future it is: a call runs to the one await of its     *)
(* body, the dictionary lookup of Overlay::validate_words reached through  *)
(* score_turn, and waits there until the lookup answers or the future is   *)
(* dropped.  play borrows the game mutably for as long as the future       *)
(* lives, so no other call acts on the game meanwhile.  The word list is   *)
(* taken as loaded.                                                        *)

\* the call waits for the dictionary
Waiting == [tag |-> "Waiting", err |-> "", detail |-> <<>>]

\* the future was dropped while it waited
Dropped == [tag |-> "Dropped", err |-> "", detail |-> <<>>]

\* Game::play that spends the tiles before it asks the dictionary
PlayUntilLookupSpendFirst(g, turn) ==
    IF g.state = "Pre"
    THEN [game |-> g, result |-> Err("NotStarted", ""), consulted |-> FALSE]
    ELSE IF g.state = "Over"
    THEN [game |-> g, result |-> Err("GameOver", ""), consulted |-> FALSE]
    ELSE IF ValidateTurn(g, turn).tag # "Ok"
    THEN [game |-> g, result |-> ValidateTurn(g, turn), consulted |-> FALSE]
    ELSE [game |-> SpendTiles(g, turn).game, result |-> Waiting,
          consulted |-> TRUE]

\* Game::play up to the await: the state check and validate_turn, which
\* return at once when they fail; then score_turn builds the overlay and
\* validate_words collects the new words and asks the dictionary
PlayUntilLookup(g, turn) ==
    IF g.state = "Pre"
    THEN [game |-> g, result |-> Err("NotStarted", ""), consulted |-> FALSE]
    ELSE IF g.state = "Over"
    THEN [game |-> g, result |-> Err("GameOver", ""), consulted |-> FALSE]
    ELSE IF ValidateTurn(g, turn).tag # "Ok"
    THEN [game |-> g, result |-> ValidateTurn(g, turn), consulted |-> FALSE]
    ELSE [game |-> g, result |-> Waiting, consulted |-> TRUE]

\* Game::play from the answer of the dictionary on: the rest of score_turn,
\* spend_tiles, commit_turn, fill_rack_at, next_player, check_game_over
PlayAfterLookup(g, turn) == PlayScored(turn, ScoreTurn(g, turn))

PlayBegin ==
    /\ Idle
    /\ \E turn \in Turns : Returned("play", "", turn, PlayUntilLookup(game, turn))

PlayResume ==
    /\ alive
    /\ last.result = Waiting
    /\ LET r == PlayAfterLookup(game, last.turn)
       IN  /\ game' = r.game
           /\ last' = Call("play", "", last.turn, r)
           /\ alive' = (r.result.tag # "Panic")
    /\ UNCHANGED <<prev, channel>>

PlayAbandon ==
    /\ alive
    /\ last.result = Waiting
    /\ last' = [last EXCEPT !.result = Dropped]
    /\ UNCHANGED <<game, prev, alive, channel>>

\* the caller has seen the call end
ReturnFromCall ==
    /\ last.result # Waiting
    /\ Return

AwaitNext ==
    \/ CallAddPlayer
    \/ CallStart
    \/ PlayBegin
    \/ PlayResume
    \/ PlayAbandon
    \/ ReturnFromCall

AwaitSpec == Init /\ [][AwaitNext]_vars

----------------------------------------------------------------------------
(* Persistence as a state machine: the room's game is saved, changed and   *)
(* saved again; the process that holds it ends and a new one fetches the   *)
(* game by the room's name from the games table, which outlives both.      *)

\* rows of the games table in one run
MaxRows == 2

\* persistence::fetch, row being the row fetch_one returned: the stored game
\* gets the row's id unless it carries one
PersistenceFetch(row) ==
    IF row.data.pkid = <<>> THEN [row.data EXCEPT !.pkid = <<row.id>>] ELSE row.data

\* Game::fetch: read is FALSE when the query fails, k is the row fetch_one
\* returns; any error, a missing row or a failed query, yields a new game
GameFetch(db, read, k) ==
    IF read /\ k \in 1..Len(db)
    THEN [game |-> PersistenceFetch(db[k]), result |-> Ok(""), consulted |-> FALSE]
    ELSE [game |-> NewGame(<<Char("M"), Char("A"), Char("A"), Char("A"),
                            Char("A"), Char("A"), Char("A"), Char("M"),
                            Char("A")>>),
          result |-> Ok(""), consulted |-> FALSE]

\* outcomes of a read of the games table
Reads == {TRUE} \cup {r \in {FALSE} : Len(channel.db) < MaxRows}

\* what Game::persist returned, the id as Some(id)
Persisted(result) ==
    IF result.tag = "Ok" THEN Ok(<<result.detail[1]>>) ELSE result

\* GameChannel::save_state, what Game::persist returned kept in view
CallPersist ==
    /\ Idle
    /\ \E written \in Writes :
          Handled("persist", "", <<>>,
                  [game |-> SaveState(game, channel, written).game,
                   channel |-> SaveState(game, channel, written).channel,
                   result |-> Persisted(SaveState(game, channel, written).result),
                   consulted |-> FALSE])

\* a new process: the first join finds no game and fetches it
Restart ==
    /\ Idle
    /\ \E read \in Reads, k \in 0..Len(channel.db) :
          /\ (k = 0) = (channel.db = <<>>)
          /\ Returned("fetch", IF read THEN "read" ELSE "failed", <<>>,
                      GameFetch(channel.db, read, k))

PersistNext ==
    \/ CallAddPlayer
    \/ CallPersist
    \/ Restart
    \/ Return

PersistSpec == ChannelInit /\ [][PersistNext]_vars

----------------------------------------------------------------------------
(* The conversion of a message payload into a Turn.  A JSON value is a     *)
(* pair of its kind and its content; a string is the sequence of its       *)
(* characters; an object is the sequence of its (key, value) entries in    *)
(* the order the map iterates them.                                        *)

JsonNull == <<"Null", <<>>>>

JsonNumber(n) == <<"Number", <<n>>>>

JsonString(chars) == <<"String", chars>>

JsonArray(values) == <<"Array", values>>

JsonObject(entries) == <<"Object", entries>>

DecimalDigits == <<"0", "1", "2", "3", "4", "5", "6", "7", "8", "9">>

IsDigit(c) == \E d \in 1..Len(DecimalDigits) : DecimalDigits[d] = c

DigitValue(c) == (CHOOSE d \in 1..Len(DecimalDigits) : DecimalDigits[d] = c) - 1

\* str::parse::<usize> on a string without a sign: the digits read in base
\* ten, an error for the empty string and for any other character
RECURSIVE ParseDigits(_, _)
ParseDigits(chars, value) ==
    IF chars = <<>> THEN value
    ELSE ParseDigits(Tail(chars), value * 10 + DigitValue(Head(chars)))

ParseUsize(chars) ==
    IF chars = <<>> \/ \E k \in 1..Len(chars) : ~IsDigit(chars[k])
    THEN Err("ParseIntError", "")
    ELSE Ok(ParseDigits(chars, 0))

\* FromStr for Tile
TileFromStr(chars) ==
    IF Len(chars) # 1 THEN Err("TileParse", "") ELSE Ok(Char(chars[1]))

\* Value::as_str
AsStr(value) == IF value[1] = "String" THEN Ok(value[2]) ELSE Err("None", "")

\* the closure of the map in try_from: each of the three unwraps panics on
\* an error
EntryToPlacement(entry) ==
    IF ParseUsize(entry[1]).tag # "Ok" THEN Panic("unwrap on Err")
    ELSE IF AsStr(entry[2]).tag # "Ok" THEN Panic("unwrap on None")
    ELSE IF TileFromStr(AsStr(entry[2]).detail[1]).tag # "Ok"
    THEN Panic("unwrap on Err")
    ELSE Ok(<<Placement(ParseUsize(entry[1]).detail[1],
                        TileFromStr(AsStr(entry[2]).detail[1]).detail[1])>>)

\* TryFrom<serde_json::Value> for Turn
TurnTryFrom(value) ==
    IF value[1] # "Object" THEN Panic("fixme")
    ELSE IF \E k \in 1..Len(value[2]) : EntryToPlacement(value[2][k]).tag # "Ok"
    THEN EntryToPlacement(
             value[2][SetMin({k \in 1..Len(value[2]) :
                                 EntryToPlacement(value[2][k]).tag # "Ok"})])
    ELSE Ok(<<>> \o [k \in 1..Len(value[2]) |->
                       EntryToPlacement(value[2][k]).detail[1][1]])

\* keys of the payloads drawn, in the order of the map: squares 0, 112 and
\* 113, the empty key, a negative number and a word
PayloadKeys == << <<>>, <<"-", "1">>, <<"0">>, <<"1", "1", "2">>, <<"1", "1", "3">>, <<"x">> >>

PayloadValues ==
    { JsonString(<<"A">>), JsonString(<<"M">>), JsonString(<<"A", "M">>),
      JsonString(<<>>), JsonNumber(1), JsonNull }

\* objects of no, one or two entries, and values that are no objects
Payloads ==
    { JsonObject(<<>>), JsonNull, JsonNumber(112), JsonString(<<"A">>),
      JsonArray(<<JsonString(<<"A">>)>>) }
    \cup { JsonObject(<< <<PayloadKeys[a], v>> >>) :
              a \in 1..Len(PayloadKeys), v \in PayloadValues }
    \cup { JsonObject(<< <<PayloadKeys[ab[1]], v>>, <<PayloadKeys[ab[2]], w>> >>) :
              ab \in {x \in (1..Len(PayloadKeys)) \X (1..Len(PayloadKeys)) : x[1] < x[2]},
              v \in PayloadValues, w \in PayloadValues }

\* payload.try_into() at the head of GameChannel::propose and
\* GameChannel::play
CallTryFrom ==
    /\ Idle
    /\ \E payload \in Payloads :
          Returned("try_from", "", payload,
                   [game |-> game, result |-> TurnTryFrom(payload),
                    consulted |-> FALSE])

PayloadNext ==
    \/ CallTryFrom
    \/ Return

PayloadSpec == ChannelInit /\ [][PayloadNext]_vars

----------------------------------------------------------------------------
(* Plays at and beyond the last square of the board: Game::play on a game  *)
(* whose tiles reach from the centre down to the last row.                 *)

\* the board after a word down from the centre to the last row and a word
\* along the last row from its first square
LastRowBoard ==
    Committed(StandardBoard,
              << Down(112, <<"A", "M", "A", "M", "A", "M", "A", "M">>),
                 Across(210, <<"M", "A", "M", "A", "M", "A", "M">>) >>)

\* squares the turns are laid on: the centre's left neighbour, the free
\* square after the last row's word, the last square of the board, and the
\* three indexes 225, 226 and 240 beyond it
BeyondIndexes == {111, 218, 224, 225, 226, 240}

BeyondTurns ==
    SeqsUpTo({Placement(i, t) : i \in BeyondIndexes, t \in TurnTiles}, MaxTurnLen)

BeyondInit ==
    /\ \E board \in {StandardBoard, LastRowBoard},
          rack \in {<<Char("A"), Char("M")>>,
                    <<Char("A"), Char("A"), Char("M"), BlankNone>>} :
          game = GameInPlay(board, rack)
    /\ prev = game
    /\ last = NoCall
    /\ alive = TRUE
    /\ channel = NewChannel

CallPlayBeyond ==
    /\ Idle
    /\ \E turn \in BeyondTurns : Returned("play", "", turn, Play(game, turn))

BeyondNext ==
    \/ CallPlayBeyond
    \/ Return

BeyondSpec == BeyondInit /\ [][BeyondNext]_vars

----------------------------------------------------------------------------
(* The channel with the payloads of the messages: GameChannel::play        *)
(* converts the payload before it looks at the sender's player index.      *)

\* GameChannel::play from its first line: converted is what
\* payload.try_into() yields, and the ? returns its error
ChannelPlayPayload(g, ch, event, converted, player_index, played, written) ==
    IF converted.tag # "Ok"
    THEN [game |-> g, channel |-> ch, result |-> converted, consulted |-> FALSE]
    ELSE ChannelPlay(g, ch, event, converted.detail[1], player_index, played,
                     written)

\* Channel::handle_message, events play, swap and pass, the payload as sent
HandlePlayMessage(g, ch, token, event, converted, played, written) ==
    IF ~HasPlayerIndex(ch, token)
    THEN [game |-> g, channel |-> ch, result |-> Panic("unwrap on None"),
          consulted |-> FALSE]
    ELSE ChannelPlayPayload(g, ch, event, converted, PlayerIndexOf(ch, token),
                            played, written)

\* payloads the connections send: no tile, a tile on the centre, two tiles
\* from the centre on, a key that is no number, a tile that is a number, and
\* null
MessagePayloads ==
    { JsonObject(<<>>),
      JsonObject(<< <<PayloadKeys[4], JsonString(<<"A">>)>> >>),
      JsonObject(<< <<PayloadKeys[4], JsonString(<<"A">>)>>,
                    <<PayloadKeys[5], JsonString(<<"M">>)>> >>),
      JsonObject(<< <<PayloadKeys[6], JsonString(<<"A">>)>> >>),
      JsonObject(<< <<PayloadKeys[4], JsonNumber(1)>> >>),
      JsonNull }

\* the turn of a payload that converts
TurnOf(converted) == IF converted.tag = "Ok" THEN converted.detail[1] ELSE <<>>

OnMessage ==
    /\ Idle
    /\ \E token \in Tokens, written \in Writes :
          \E event \in {"play", "swap", "pass"}, payload \in MessagePayloads :
              Handled(event, token, payload,
                      HandlePlayMessage(game, channel, token, event,
                                        TurnTryFrom(payload),
                                        Play(game, TurnOf(TurnTryFrom(payload))),
                                        written))

MessageNext ==
    \/ OnJoin
    \/ OnStart
    \/ OnMessage
    \/ OnLeave
    \/ Return

MessageSpec == ChannelInit /\ [][MessageNext]_vars

----------------------------------------------------------------------------
(* Plays along the centre row with a free square between the tiles:        *)
(* Game::play from the empty standard board.                               *)

\* squares the turns are laid on: the centre, its right neighbour, and the
\* squares two to the left and two to the right of the centre
GapIndexes == {110, 112, 113, 114}

GapTurns ==
    SeqsUpTo({Placement(i, t) : i \in GapIndexes, t \in TurnTiles}, MaxTurnLen)

GapInit ==
    /\ \E rack \in {<<Char("A"), Char("M"), Char("A")>>,
                    <<Char("A"), Char("A"), Char("M"), BlankNone>>} :
          game = GameInPlay(StandardBoard, rack)
    /\ prev = game
    /\ last = NoCall
    /\ alive = TRUE
    /\ channel = NewChannel

CallPlayGap ==
    /\ Idle
    /\ \E turn \in GapTurns : Returned("play", "", turn, Play(game, turn))

GapNext ==
    \/ CallPlayGap
    \/ Return

GapSpec == GapInit /\ [][GapNext]_vars

----------------------------------------------------------------------------
(* Properties.  In the state a call leaves behind, prev is the game the    *)
(* call started from, game the game it left and last the call itself.      *)

PlayErrors ==
    {"TurnIndexesNotUnique", "TurnNotLinear", "SquareOccupied", "NotConnected",
     "NoTileToSpend", "IllegalWords"}

PlayOnStarted == last.op = "play" /\ prev.state = "Started"

Accepted == last.result.tag = "Ok"

RejectedWith(e) == last.result.tag = "Err" /\ last.result.err = e

\* C1: a play on a Started game that returns TurnIndexesNotUnique,
\* TurnNotLinear, SquareOccupied, NotConnected, NoTileToSpend or IllegalWords
\* leaves the board, every rack, the bag, every score history and the
\* lifecycle state as they were before the call.
C1_RejectedPlayLeavesGame ==
    (PlayOnStarted /\ last.result.tag = "Err" /\ last.result.err \in PlayErrors)
        => /\ game.board = prev.board
           /\ game.racks = prev.racks
           /\ game.bag = prev.bag
           /\ game.scores = prev.scores
           /\ game.state = prev.state

\* C1 happens: a play that passed the five checks of the turn was refused by
\* the dictionary, on a game whose acting player has scored before
C1_IllegalWordsSeen ==
    /\ PlayOnStarted
    /\ RejectedWith("IllegalWords")
    /\ prev.scores[prev.player_index + 1] # <<>>

\* the five checks that precede the dictionary, each on its own
Unique == ValidateUniqueIndexes(last.turn)

Linear == ValidateLinear(last.turn)

Occupying == \E i \in 1..Len(last.turn) : IsOccupied(prev.board, last.turn[i].index)

Connected == ValidateConnected(prev.board, last.turn)

Affordable ==
    SpendTilesInner(last.turn, prev.racks[prev.player_index + 1]).result.tag = "Ok"

FiveChecksPass == Unique /\ Linear /\ ~Occupying /\ Connected /\ Affordable

Legal == IllegalWords(WordStrings(NewWords(prev.board, last.turn))) = <<>>

\* C2: play applies its checks in the order uniqueness, linearity,
\* non-occupancy, connectivity, tile availability, dictionary, and returns the
\* error of the first one that fails; the dictionary is consulted exactly when
\* the first five passed.
C2_ChecksInOrder ==
    PlayOnStarted
        => /\ ~Unique => RejectedWith("TurnIndexesNotUnique")
           /\ (Unique /\ ~Linear) => RejectedWith("TurnNotLinear")
           /\ (Unique /\ Linear /\ Occupying) => RejectedWith("SquareOccupied")
           /\ (Unique /\ Linear /\ ~Occupying /\ ~Connected)
                 => RejectedWith("NotConnected")
           /\ (Unique /\ Linear /\ ~Occupying /\ Connected /\ ~Affordable)
                 => RejectedWith("NoTileToSpend")
           /\ last.consulted <=> FiveChecksPass
           /\ (FiveChecksPass /\ ~Legal) => RejectedWith("IllegalWords")
           /\ (FiveChecksPass /\ Legal) => Accepted

\* C2 happens: a turn that is not linear and covers an occupied square was
\* played and refused as not linear
C2_NonLinearOverOccupied ==
    /\ PlayOnStarted
    /\ Unique /\ ~Linear /\ Occupying
    /\ RejectedWith("TurnNotLinear")

\* C3: an accepted play advances the cursor to (cursor + 1) mod the number of
\* players; a play rejected with an error other than IllegalWords leaves the
\* cursor where it was.
C3_CursorAfterPlay ==
    last.op = "play"
        => /\ Accepted
                 => game.player_index = (prev.player_index + 1) % Len(prev.players)
           /\ (last.result.tag = "Err" /\ last.result.err # "IllegalWords")
                 => game.player_index = prev.player_index

\* C3 happens: the last of two players made an accepted play and the cursor
\* went back to the first
C3_CursorWrapped ==
    /\ last.op = "play"
    /\ Accepted
    /\ Len(prev.players) = 2
    /\ prev.player_index = 1
    /\ game.player_index = 0

\* C4: when a play message fails with IllegalWords, after the message is
\* handled the cursor has advanced to the next player while the board, the
\* racks and the score histories are unchanged.
C4_IllegalWordsEndsTurn ==
    (last.op = "play" /\ RejectedWith("IllegalWords"))
        => /\ game.player_index = (prev.player_index + 1) % Len(prev.players)
           /\ game.board = prev.board
           /\ game.racks = prev.racks
           /\ game.scores = prev.scores

\* C5: play, swap and pass on a Pre game each return NotStarted, on an Over
\* game each return GameOver, and change no part of the game.
C5_OnlyInStarted ==
    last.op \in {"play", "swap", "pass"}
        => /\ prev.state = "Pre" => (RejectedWith("NotStarted") /\ game = prev)
           /\ prev.state = "Over" => (RejectedWith("GameOver") /\ game = prev)

\* C6: once the game is Over no call of add_player, start, play, swap or pass
\* changes anything: the state stays Over and board, racks, bag, score
\* histories and cursor stay as they are.
C6_OverIsTerminal ==
    (prev.state = "Over"
     /\ last.op \in {"add_player", "start", "play", "swap", "pass"})
        => /\ game.state = "Over"
           /\ game.board = prev.board
           /\ game.racks = prev.racks
           /\ game.bag = prev.bag
           /\ game.scores = prev.scores
           /\ game.player_index = prev.player_index

SomeRackEmpty(g) == \E i \in 1..Len(g.racks) : g.racks[i] = <<>>

\* C7: after an accepted play the game is Over if and only if the bag is
\* empty and some rack is empty, and otherwise still Started; nothing but an
\* accepted play moves the game to Over.
C7_OverIffBagAndRackEmpty ==
    /\ (last.op = "play" /\ Accepted)
          => /\ game.state = "Over" <=> (game.bag = <<>> /\ SomeRackEmpty(game))
             /\ game.state \in {"Over", "Started"}
    /\ (game.state = "Over" /\ prev.state # "Over")
          => (last.op = "play" /\ Accepted)

\* C7 happens: an accepted play emptied a rack with the bag empty and the
\* game went from Started to Over
C7_PlayEndedGame ==
    /\ last.op = "play"
    /\ Accepted
    /\ prev.state = "Started"
    /\ game.state = "Over"

MovedToOver == prev.state # "Over" /\ game.state = "Over"

\* positions of the "(remaining tiles)" entries the call added to the score
\* history of the player at index (0-based)
Penalties(index) ==
    {k \in (Len(prev.scores[index + 1]) + 1)..Len(game.scores[index + 1]) :
        /\ game.scores[index + 1][k] # <<>>
        /\ game.scores[index + 1][k][1][1] = RemainingTilesLabel}

PenaltyOf(index) ==
    << <<RemainingTilesLabel, 0 - SumScoreTiles(game.racks[index + 1])>> >>

ExactlyOnePenalty(index) ==
    /\ Cardinality(Penalties(index)) = 1
    /\ \A k \in Penalties(index) : game.scores[index + 1][k] = PenaltyOf(index)

\* C8 as stated: when the game moves to Over every player whose rack is not
\* empty gets exactly one "(remaining tiles)" entry, the negative of the
\* letter values left on the rack, and a player whose rack is empty gets none.
C8_PenaltyForEveryNonEmptyRack ==
    MovedToOver
        => \A index \in 0..(Len(game.players) - 1) :
              IF game.racks[index + 1] # <<>>
              THEN ExactlyOnePenalty(index)
              ELSE Penalties(index) = {}

\* C8 amended: when the game moves to Over every player whose remaining
\* tiles are worth more than 0 gets exactly one "(remaining tiles)" entry,
\* the negative of that worth; a player whose rack is empty or holds blanks
\* only gets none.
C8_PenaltyForEveryPositiveRack ==
    MovedToOver
        => \A index \in 0..(Len(game.players) - 1) :
              IF SumScoreTiles(game.racks[index + 1]) > 0
              THEN ExactlyOnePenalty(index)
              ELSE Penalties(index) = {}

\* C8 happens: the game moved to Over while a player still held letters,
\* and that player was charged for them
C8_PenaltyCharged ==
    /\ MovedToOver
    /\ \E index \in 0..(Len(game.players) - 1) :
          /\ SumScoreTiles(game.racks[index + 1]) > 0
          /\ ExactlyOnePenalty(index)

NewName == last.op = "add_player" /\ last.player \notin SeqRange(prev.players)

\* C9: add_player with a name not yet in the game succeeds only in state
\* Pre, where it appends the player, an empty score history and a rack; in
\* state Started or Over it returns AlreadyStarted and changes nothing.
C9_NewPlayerOnlyInPre ==
    NewName
        => IF prev.state = "Pre"
           THEN /\ Accepted
                /\ last.result.detail = <<Len(prev.players)>>
                /\ game.players = Append(prev.players, last.player)
                /\ game.scores = Append(prev.scores, <<>>)
                /\ Len(game.racks) = Len(prev.racks) + 1
                /\ Front(game.racks) = prev.racks
                /\ game.state = "Pre"
           ELSE RejectedWith("AlreadyStarted") /\ game = prev

\* C9 happens: a new name asked to join a game that had started
C9_LateJoinRefused ==
    /\ NewName
    /\ prev.state = "Started"
    /\ RejectedWith("AlreadyStarted")

KnownName == last.op = "add_player" /\ last.player \in SeqRange(prev.players)

\* C10: add_player with a name already in the game returns that player's
\* index and changes nothing, whatever the lifecycle state; no two players
\* of a game share a name.
C10_KnownPlayerKeepsIndex ==
    /\ KnownName
          => /\ Accepted
             /\ \E i \in 1..Len(prev.players) :
                   /\ prev.players[i] = last.player
                   /\ last.result.detail = <<i - 1>>
             /\ game = prev
    /\ \A i, j \in 1..Len(game.players) :
          i # j => game.players[i] # game.players[j]

\* C10 happens: the second of two players joined again after the game was
\* over and got index 1 back
C10_RejoinedWhenOver ==
    /\ KnownName
    /\ prev.state = "Over"
    /\ Accepted
    /\ last.result.detail = <<1>>

\* tiles on the racks of g
RECURSIVE TilesOnRacks(_)
TilesOnRacks(racks) ==
    IF racks = <<>> THEN 0 ELSE Len(Head(racks)) + TilesOnRacks(Tail(racks))

StartOn(state) == last.op = "start" /\ prev.state = state

\* C11: start() on a Pre game with at least one player moves the state to
\* Started, sets the cursor to a valid player index and leaves every player
\* with a rack of exactly 7 tiles whenever the game held at least 7 tiles
\* per player (in the bag and on the racks dealt when the players joined).
C11_StartDealsAndDraws ==
    (StartOn("Pre") /\ Len(prev.players) >= 1)
        => /\ Accepted
           /\ game.state = "Started"
           /\ game.player_index >= 0
           /\ game.player_index < Len(game.players)
           /\ game.players = prev.players
           /\ Len(game.racks) = Len(game.players)
           /\ (Len(prev.bag) + TilesOnRacks(prev.racks)
                  >= RACK_SIZE * Len(prev.players))
                 => \A i \in 1..Len(game.racks) : Len(game.racks[i]) = RACK_SIZE

\* C11 happens: a game of two players that held 7 tiles for each was
\* started, and the second player was drawn to begin
C11_TwoFullRacksStarted ==
    /\ StartOn("Pre")
    /\ Len(prev.players) = 2
    /\ Len(prev.bag) + TilesOnRacks(prev.racks) >= RACK_SIZE * 2
    /\ game.player_index = 1
    /\ game.state = "Started"

\* C12: start() on a Started game leaves the state Started and changes no
\* existing player's rack, nor the bag, the board or any score history.
C12_RestartKeepsRacks ==
    StartOn("Started")
        => /\ game.state = "Started"
           /\ \A i \in 1..Len(prev.racks) : game.racks[i] = prev.racks[i]
           /\ Len(game.racks) = Len(game.players)
           /\ game.players = prev.players
           /\ game.bag = prev.bag
           /\ game.board = prev.board
           /\ game.scores = prev.scores

\* C12 happens: start() was called again in the middle of a game, with
\* tiles on the board, a rack below 7 and scores recorded
C12_RestartedMidGame ==
    /\ StartOn("Started")
    /\ IsOccupied(prev.board, BOARD_CENTER)
    /\ \E i \in 1..Len(prev.racks) : Len(prev.racks[i]) < RACK_SIZE
    /\ \E i \in 1..Len(prev.scores) : prev.scores[i] # <<>>
    /\ Accepted

\* the placements of the turn on square index
PlacedOn(turn, index) == {j \in 1..Len(turn) : turn[j].index = index}

\* C13: an accepted play writes each placed tile to the square at its board
\* index and changes no other square; the board always keeps exactly 225
\* squares, and an Occupied square never changes its tile nor becomes
\* unoccupied, whatever the call.
C13_BoardOnlyGainsPlacedTiles ==
    /\ Len(game.board) = BOARD_SIZE * BOARD_SIZE
    /\ \/ game.board = prev.board
       \/ \A index \in 0..(BOARD_SIZE * BOARD_SIZE - 1) :
             IsOccupied(prev.board, index)
                 => game.board[index + 1] = prev.board[index + 1]
    /\ (PlayOnStarted /\ Accepted)
          => \A index \in 0..(BOARD_SIZE * BOARD_SIZE - 1) :
                IF PlacedOn(last.turn, index) = {}
                THEN game.board[index + 1] = prev.board[index + 1]
                ELSE \A j \in PlacedOn(last.turn, index) :
                        game.board[index + 1] = SqTile(last.turn[j].tile)

\* C13 happens: two tiles were placed next to a tile already on the board
C13_TwoTilesJoinedTheBoard ==
    /\ PlayOnStarted
    /\ Accepted
    /\ Len(last.turn) = 2
    /\ IsOccupied(prev.board, BOARD_CENTER)
    /\ \A j \in 1..2 : ~IsOccupied(prev.board, last.turn[j].index)

\* the rack tile a placed tile is paid with: the letter itself, or an
\* unassigned blank for a blank played as a letter
PaidWith(tile) == IF tile.kind = "Char" THEN tile ELSE BlankNone

\* how many placements of the turn are paid with rack_tile
Demand(turn, rack_tile) ==
    Cardinality({j \in 1..Len(turn) : PaidWith(turn[j].tile) = rack_tile})

\* the positions of the rack that stay when, for every tile, its first
\* Demand occurrences are taken away
Staying(rack, turn) ==
    {k \in 1..Len(rack) :
        Cardinality({j \in 1..k : rack[j] = rack[k]}) > Demand(turn, rack[k])}

\* the tiles of the rack at the given positions, in rack order
AtPositions(rack, positions) ==
    [i \in 1..Cardinality(positions) |->
        rack[CHOOSE k \in positions : Cardinality({j \in positions : j <= k}) = i]]

Actor == prev.player_index + 1

\* the number of tiles the call drew from the bag
Drawn == Len(prev.bag) - Len(game.bag)

\* the acting player's rack as spend_tiles left it, before the refill
RackBeforeRefill == SubSeq(game.racks[Actor], 1, Len(game.racks[Actor]) - Drawn)

\* C14: for a turn that passed validation the spend step never errors; when
\* the play is accepted it has removed exactly one rack tile per placed tile,
\* the first matching one, keeping the order of the others, so that the rack
\* is |turn.tiles| shorter before the refill, and no other rack is touched.
C14_SpendRemovesFirstMatches ==
    PlayOnStarted
        => /\ last.consulted
                 => (Accepted \/ RejectedWith("IllegalWords"))
           /\ Accepted
                 => /\ Len(RackBeforeRefill)
                          = Len(prev.racks[Actor]) - Len(last.turn)
                    /\ RackBeforeRefill
                          = AtPositions(prev.racks[Actor],
                                        Staying(prev.racks[Actor], last.turn))
                    /\ Len(game.racks) = Len(prev.racks)
                    /\ \A i \in 1..Len(prev.racks) :
                          i # Actor => game.racks[i] = prev.racks[i]

\* C14 happens: a letter held more than once, after another letter, and a
\* blank were spent from a rack while another player held a rack too
C14_SpentFromTheMiddle ==
    /\ PlayOnStarted
    /\ Accepted
    /\ Len(prev.racks) = 2
    /\ \E j \in 1..Len(last.turn), k \in 2..Len(prev.racks[Actor]) :
          /\ last.turn[j].tile = prev.racks[Actor][k]
          /\ prev.racks[Actor][1] # prev.racks[Actor][k]
          /\ \E m \in (k + 1)..Len(prev.racks[Actor]) :
                prev.racks[Actor][m] = prev.racks[Actor][k]

\* C14 happens as well with a blank paid for a letter
C14_BlankSpent ==
    /\ PlayOnStarted
    /\ Accepted
    /\ \E j \in 1..Len(last.turn) : last.turn[j].tile.kind = "Blank"

\* the last n tiles of the bag in the order they are popped
PoppedFromEnd(bag, n) == [i \in 1..n |-> bag[Len(bag) + 1 - i]]

\* how many tiles a rack of the given length draws from the bag
Refill(length, bag) ==
    IF RACK_SIZE - length <= Len(bag) THEN RACK_SIZE - length ELSE Len(bag)

Joined == last.op = "add_player" /\ Len(game.players) = Len(prev.players) + 1

\* C15: every rack holds at most 7 tiles, and fewer than 7 only when the bag
\* is empty; on add_player and after each accepted play the rack is refilled
\* with the tiles popped from the end of the bag, until it holds 7 or the bag
\* is empty.
C15_RacksRefilledFromBagEnd ==
    /\ \A i \in 1..Len(game.racks) :
          /\ Len(game.racks[i]) <= RACK_SIZE
          /\ Len(game.racks[i]) < RACK_SIZE => game.bag = <<>>
    /\ Joined
          => /\ game.racks[Len(game.players)]
                   = PoppedFromEnd(prev.bag, Refill(0, prev.bag))
             /\ game.bag = SubSeq(prev.bag, 1, Len(prev.bag) - Refill(0, prev.bag))
    /\ (PlayOnStarted /\ Accepted)
          => /\ game.racks[Actor]
                   = AtPositions(prev.racks[Actor],
                                 Staying(prev.racks[Actor], last.turn))
                     \o PoppedFromEnd(prev.bag,
                            Refill(Len(prev.racks[Actor]) - Len(last.turn), prev.bag))
             /\ game.bag
                   = SubSeq(prev.bag, 1,
                            Len(prev.bag)
                              - Refill(Len(prev.racks[Actor]) - Len(last.turn),
                                       prev.bag))

\* C15 happens: a play of two tiles drew the last tile of the bag, which
\* left the rack below 7
C15_BagRanOutOnRefill ==
    /\ PlayOnStarted
    /\ Accepted
    /\ Len(last.turn) = 2
    /\ Drawn = 1
    /\ game.bag = <<>>
    /\ Len(game.racks[Actor]) = RACK_SIZE - 1

\* C15 happens on joining too: a player drew seven tiles that were not all
\* the same from a bag that held more
C15_JoinedWithFullRack ==
    /\ Joined
    /\ Len(prev.bag) > RACK_SIZE
    /\ \E i \in 1..RACK_SIZE :
          game.racks[Len(game.players)][i] # game.racks[Len(game.players)][1]

\* the sets of indexes covered by the words already on the board
Covered(words) == {words[k].indexes : k \in 1..Len(words)}

\* the words of a scan that cover none of the given sets of indexes
NotAmong(scan, covered) == SelectSeq(scan, LAMBDA w : w.indexes \notin covered)

\* the new words of the play in scan order: those of the horizontal pass
\* over the board with the turn laid on it, then those of the vertical pass
NewInScanOrder(board, turn, covered) ==
    NotAmong(WordsHorizontal(OverlaySource(board, turn)), covered)
    \o NotAmong(WordsVertical(OverlaySource(board, turn)), covered)

\* the TurnScore of a turn that formed the given words
TurnScoreFor(board, turn, words) ==
    [k \in 1..Len(words) |-> <<words[k].string, ScoreWord(board, turn, words[k])>>]
    \o (IF Len(turn) >= BINGO_SIZE THEN << <<"*", BINGO_BONUS>> >> ELSE <<>>)

PlayedTurnScore ==
    TurnScoreFor(prev.board, last.turn,
                 NewInScanOrder(prev.board, last.turn,
                                Covered(Words(BoardSource(prev.board)))))

\* the history of player i after the play, the end of the game left aside
HistoryAfterPlay(i) ==
    IF i = Actor THEN Append(prev.scores[i], PlayedTurnScore) ELSE prev.scores[i]

\* history is base followed by one TurnScore that deducts remaining tiles
WithPenalty(history, base) ==
    /\ Len(history) = Len(base) + 1
    /\ SubSeq(history, 1, Len(base)) = base
    /\ Len(history[Len(history)]) = 1
    /\ history[Len(history)][1][1] = RemainingTilesLabel
    /\ history[Len(history)][1][2] < 0

\* C16 as stated: each accepted play appends exactly one TurnScore to the
\* acting player's score history, with one (word, points) entry per new word
\* in scan order, and no other player's history changes unless the play ends
\* the game.
C16_ExactlyOneTurnScoreForActor ==
    (PlayOnStarted /\ Accepted)
        => /\ Len(game.scores) = Len(prev.scores)
           /\ game.scores[Actor] = HistoryAfterPlay(Actor)
           /\ \A i \in 1..Len(prev.scores) :
                 (i # Actor /\ game.state # "Over")
                     => game.scores[i] = prev.scores[i]

\* C16, amended: each accepted play appends one TurnScore for the turn to
\* the acting player's score history, with one (word, points) entry per new
\* word in scan order (horizontal words first, then vertical words); besides
\* that, a history changes only when the play ends the game, and then, for
\* the acting player as for the others, by one appended "(remaining tiles)"
\* entry; entries already recorded never change.
C16_OneTurnScoreThenPenalties ==
    (PlayOnStarted /\ Accepted)
        => /\ Len(game.scores) = Len(prev.scores)
           /\ \/ game.scores[Actor] = HistoryAfterPlay(Actor)
              \/ /\ game.state = "Over"
                 /\ WithPenalty(game.scores[Actor], HistoryAfterPlay(Actor))
           /\ \A i \in 1..Len(prev.scores) :
                 i # Actor
                     => \/ game.scores[i] = prev.scores[i]
                        \/ /\ game.state = "Over"
                           /\ WithPenalty(game.scores[i], prev.scores[i])

\* C16 happens: the play that ended the game left the acting player with
\* tiles, and the history grew by the turn's score and by the penalty
C16_ActorPenalisedOnLastPlay ==
    /\ PlayOnStarted
    /\ Accepted
    /\ game.state = "Over"
    /\ Len(game.scores[Actor]) = Len(prev.scores[Actor]) + 2

\* C16 happens in the plain case too: a play formed a horizontal and a
\* vertical word at once, and the game went on
C16_TwoWordsScored ==
    /\ PlayOnStarted
    /\ Accepted
    /\ game.state = "Started"
    /\ Len(PlayedTurnScore) = 2
    /\ Len(WordsVertical(OverlaySource(prev.board, last.turn))) = 1

Scored == last.op = "score"

Scanned == last.op = "new_words"

\* what the function called last returned
Returns == last.result.detail[1]

\* the turn puts every tile on a square of its own that holds no tile yet
OnFreeSquares ==
    /\ ValidateUniqueIndexes(last.turn)
    /\ \A j \in 1..Len(last.turn) : ~IsOccupied(prev.board, last.turn[j].index)

\* the tile on a square once the turn is laid on the board
TileOn(board, turn, index) ==
    IF \E j \in 1..Len(turn) : turn[j].index = index
    THEN turn[CHOOSE j \in 1..Len(turn) : turn[j].index = index].tile
    ELSE board[index + 1].tile

\* the multiplier a square of the board gives, 1 when it gives none of the kind
Multiplier(board, index, kind) ==
    IF board[index + 1].kind = kind THEN board[index + 1].mult ELSE 1

\* the sum over the squares of letter value times letter-bonus multiplier
RECURSIVE LetterSum(_, _, _)
LetterSum(board, turn, indexes) ==
    IF indexes = {} THEN 0
    ELSE LET index == CHOOSE i \in indexes : TRUE
         IN  ScoreTile(TileOn(board, turn, index))
                 * Multiplier(board, index, "LetterBonus")
             + LetterSum(board, turn, indexes \ {index})

\* the product of the word-bonus multipliers on the squares
WordMultiplier(board, indexes) ==
    (2 ^ Cardinality({i \in indexes : board[i + 1] = SqWordBonus(2)}))
    * (3 ^ Cardinality({i \in indexes : board[i + 1] = SqWordBonus(3)}))

WordPoints(board, turn, word) ==
    LetterSum(board, turn, SeqRange(word.indexes))
    * WordMultiplier(board, SeqRange(word.indexes))

SevenAcrossTwoBonuses == Across(64, <<"A", "M", "A", "A", "A", "A", "M">>)

\* C17: the score of a new word is the sum over its squares of letter value
\* times the letter-bonus multiplier of the square (0 for a blank), times the
\* product of the multipliers of the word-bonus squares it covers, a square
\* that holds a tile already giving no bonus; M-A-R from the centre of the
\* empty board scores 10, and the scores the tests expect come out.
C17_WordScoreFormula ==
    (Scored /\ OnFreeSquares)
        => /\ LET words == NewWords(prev.board, last.turn)
              IN  \A k \in 1..Len(words) :
                     /\ k <= Len(Returns)
                     /\ Returns[k][1] = words[k].string
                     /\ Returns[k][2] = WordPoints(prev.board, last.turn, words[k])
           /\ (prev.board = StandardBoard /\ last.turn = Across(112, <<"M", "A", "R">>))
                 => Returns = << <<"MAR", 10>> >>
           /\ (prev.board = StandardBoard /\ last.turn = TurnA)
                 => Returns = << <<"SMART", 8>> >>
           /\ (prev.board = SmartBoard /\ last.turn = TurnB)
                 => Returns = << <<"AX", 17>>, <<"MA", 1>>, <<"AX", 17>> >>
           /\ (prev.board = ParseBoard(TestBoardATokens) /\ last.turn = TurnSLT)
                 => Returns = << <<"SAMPLE", 10>>, <<"SLAT", 5>> >>
           /\ (prev.board = TopRowBoard /\ Len(last.turn) = 2
                 /\ last.turn[1].index = 0 /\ last.turn[2].index = 7)
                 => Returns = << <<"AMAMAMAM", 16 * 9>> >>

\* C17 happens: a word over two double word squares was scored four times
\* the sum of its letters
C17_TwoWordBonusesMultiplied ==
    /\ Scored
    /\ prev.board = StandardBoard
    /\ last.turn = SevenAcrossTwoBonuses
    /\ Returns[1] = <<"AMAAAAM", 44>>

\* C18: a turn of 7 tiles adds exactly one entry ("*", 50) to its TurnScore,
\* after the entries of all the words; a turn of fewer tiles adds none.
C18_BingoEntryForSevenTiles ==
    Scored
        => /\ Len(last.turn) = BINGO_SIZE
                 => /\ Len(Returns) = Len(NewWords(prev.board, last.turn)) + 1
                    /\ Returns[Len(Returns)] = <<"*", BINGO_BONUS>>
                    /\ \A k \in 1..(Len(Returns) - 1) : Returns[k][1] # "*"
           /\ Len(last.turn) < BINGO_SIZE
                 => \A k \in 1..Len(Returns) : Returns[k][1] # "*"

\* C18 happens: a turn of seven tiles was scored, its word first, the bonus
\* after it
C18_SevenTilesScored ==
    /\ Scored
    /\ Len(last.turn) = BINGO_SIZE
    /\ Returns = << <<"AMAAAAM", 44>>, <<"*", BINGO_BONUS>> >>

\* C19: new_words is the list of the words scanned over the overlay minus
\* the words scanned over the board alone, two words being the same when
\* they cover the same indexes: a word with the letters of a word elsewhere
\* on the board stays, two new words with the same letters are both
\* reported, and a word the turn extends is reported in its extended form.
C19_NewWordsByIndexes ==
    Scanned
        => /\ Returns = NotAmong(Words(OverlaySource(prev.board, last.turn)),
                                 Covered(Words(BoardSource(prev.board))))
           /\ (prev.board = ParseBoard(TestBoardATokens)
                 /\ last.turn = Across(0, <<"H", "I">>))
                 => Returns = << [indexes |-> <<0, 1>>, string |-> "HI"] >>
           /\ (prev.board = SmartBoard /\ last.turn = TurnB)
                 => WordStrings(Returns) = <<"AX", "MA", "AX">>
           /\ (prev.board = ParseBoard(TestBoardATokens) /\ last.turn = TurnSLT)
                 => Returns = << [indexes |-> <<111, 112, 113, 114, 115, 116>>,
                                  string |-> "SAMPLE"],
                                 [indexes |-> <<111, 126, 141, 156>>,
                                  string |-> "SLAT"] >>

\* C19 happens: the turn formed a word whose letters are those of a word
\* that lies elsewhere on the board, and it was reported
C19_SameLettersElsewhere ==
    /\ Scanned
    /\ Returns # <<>>
    /\ \E k \in 1..Len(Words(BoardSource(prev.board))) :
          /\ Words(BoardSource(prev.board))[k].string = Returns[1].string
          /\ Words(BoardSource(prev.board))[k].indexes # Returns[1].indexes

\* C20: every word new_words returns covers at least one index placed by
\* the turn, and new_words of an empty turn is empty.
C20_NewWordsTouchTheTurn ==
    Scanned
        => /\ \A k \in 1..Len(Returns) :
                 \E j \in 1..Len(last.turn) :
                    last.turn[j].index \in SeqRange(Returns[k].indexes)
           /\ last.turn = <<>> => Returns = <<>>

\* the part of C20 that holds: new_words of an empty turn is empty
EmptyTurnNoNewWords == (Scanned /\ last.turn = <<>>) => Returns = <<>>

WordsCalled == last.op = "words"

\* the squares of the scanned source that hold a letter, as positions of
\* the cursor of a pass
FilledCursors(source, direction) ==
    {c \in 0..(INDEX_OVERFLOW - 1) :
        GetChar(source, TransposeIndex(c, direction)) # NoChar}

\* cursor c continues a run that began at cursor first: same line, and
\* every position between them is filled
InRun(filled, first, c) ==
    /\ c >= first
    /\ c \div BOARD_SIZE = first \div BOARD_SIZE
    /\ \A b \in first..c : b \in filled

\* the cursors where a maximal run of at least two filled squares begins
RunStarts(filled) ==
    {c \in filled :
        /\ c % BOARD_SIZE = 0 \/ (c - 1) \notin filled
        /\ InRun(filled, c, c + 1)}

\* the elements of a set of integers in ascending order
Ascending(S) ==
    [i \in 1..Cardinality(S) |->
        CHOOSE k \in S : Cardinality({j \in S : j <= k}) = i]

\* the letters the source shows on the squares, in their order
RECURSIVE Letters(_, _)
Letters(source, indexes) ==
    IF indexes = <<>> THEN ""
    ELSE GetChar(source, Head(indexes)) \o Letters(source, Tail(indexes))

\* the squares of the maximal run that begins at cursor first
RunIndexes(direction, filled, first) ==
    LET cursors == Ascending({c \in filled : InRun(filled, first, c)})
    IN  [k \in 1..Len(cursors) |-> TransposeIndex(cursors[k], direction)]

\* the word of the maximal run that begins at cursor first
RunWord(source, direction, filled, first) ==
    [indexes |-> RunIndexes(direction, filled, first),
     string |-> Letters(source, RunIndexes(direction, filled, first))]

\* the maximal runs of a pass in the order of their first squares
Runs(source, direction, filled) ==
    [k \in 1..Cardinality(RunStarts(filled)) |->
        RunWord(source, direction, filled, Ascending(RunStarts(filled))[k])]

ScannedSource == SourceOf(prev.board, last.turn)

\* C21: a scan yields every maximal contiguous run of at least two filled
\* squares exactly once per direction, the horizontal runs in row-major
\* order of their first square, then the vertical runs in column-major
\* order; a filled square with no filled neighbour in a direction yields
\* nothing for that direction, wherever it lies.
C21_ScanYieldsMaximalRuns ==
    WordsCalled
        => Returns[1]
              = Runs(ScannedSource, "Horizontal",
                     FilledCursors(ScannedSource, "Horizontal"))
                \o Runs(ScannedSource, "Vertical",
                        FilledCursors(ScannedSource, "Vertical"))

\* what holds of C21: the scan yields the maximal runs whenever no lone
\* tile lies on the last square of a row or a column
NoLoneTileAtLineEnd(source, direction) ==
    \A c \in FilledCursors(source, direction) :
        (c % BOARD_SIZE = BOARD_SIZE - 1)
            => (c - 1) \in FilledCursors(source, direction)

ScanYieldsRunsAwayFromEnds ==
    (WordsCalled
        /\ NoLoneTileAtLineEnd(ScannedSource, "Horizontal")
        /\ NoLoneTileAtLineEnd(ScannedSource, "Vertical")
        /\ (INDEX_OVERFLOW - 1) \notin FilledCursors(ScannedSource, "Vertical"))
        => C21_ScanYieldsMaximalRuns

\* C22: each directional pass of a scan ends after visiting only the cursor
\* positions 0..224: no call of next leaves the cursor beyond 225, the
\* position after the last square.
C22_ScanStaysOnTheBoard ==
    WordsCalled
        => \A d \in 1..2 :
              \A k \in 1..Len(Returns[2][d]) :
                 Returns[2][d][k] <= INDEX_OVERFLOW

Validated == last.op = "validate_turn"

CoversCentre == \E j \in 1..Len(last.turn) : last.turn[j].index = BOARD_CENTER

\* squares a and b lie side by side in a row, or one above the other
Adjacent(a, b) ==
    \/ /\ a \div BOARD_SIZE = b \div BOARD_SIZE
       /\ (a % BOARD_SIZE) - (b % BOARD_SIZE) \in {-1, 1}
    \/ /\ a % BOARD_SIZE = b % BOARD_SIZE
       /\ (a \div BOARD_SIZE) - (b \div BOARD_SIZE) \in {-1, 1}

TouchesOccupied ==
    \E j \in 1..Len(last.turn) :
        \E b \in 0..(INDEX_OVERFLOW - 1) :
            IsOccupied(prev.board, b) /\ Adjacent(last.turn[j].index, b)

\* C23: a turn that does not cover the centre square is rejected with
\* NotConnected unless one of its indexes is next to an Occupied square, in
\* its row or directly above or below, never round a row end; a turn that
\* covers the centre square is exempt.  (Of the turns that passed the
\* checks which come first.)
C23_ConnectedOrCentre ==
    (Validated /\ Unique /\ Linear /\ ~Occupying)
        => /\ RejectedWith("NotConnected") <=> (~CoversCentre /\ ~TouchesOccupied)
           /\ game = prev

\* C23 happens: a tile on the first square of a row, with a tile on the
\* last square of the row above, was refused as not connected
C23_NoConnectionRoundRowEnd ==
    /\ Validated
    /\ Len(last.turn) = 1
    /\ last.turn[1].index % BOARD_SIZE = 0
    /\ IsOccupied(prev.board, last.turn[1].index - 1)
    /\ RejectedWith("NotConnected")

\* the turn can be paid from the rack: no unassigned blank is placed, and
\* the rack holds each letter as often as it is placed, and as many
\* unassigned blanks as blanks are placed
Payable(turn, rack) ==
    /\ \A j \in 1..Len(turn) : turn[j].tile # BlankNone
    /\ \A j \in 1..Len(turn) :
          Demand(turn, PaidWith(turn[j].tile))
              <= Cardinality({k \in 1..Len(rack) : rack[k] = PaidWith(turn[j].tile)})

\* C24: a turn is rejected with NoTileToSpend unless the acting player's
\* rack holds, counting multiplicity, the same letter tile for every placed
\* letter and an unassigned blank of its own for every placed blank with a
\* letter; a placement of an unassigned blank is never accepted.  (Of the
\* turns that passed the checks which come first.)
C24_RackPaysForTurn ==
    (Validated /\ Unique /\ Linear /\ ~Occupying /\ Connected)
        => /\ RejectedWith("NoTileToSpend") <=> ~Payable(last.turn, prev.racks[Actor])
           /\ Accepted <=> Payable(last.turn, prev.racks[Actor])

\* C24 happens: a letter was placed that the rack, which holds a blank,
\* does not hold, and the turn was refused
C24_BlankDoesNotPayForLetter ==
    /\ Validated
    /\ RejectedWith("NoTileToSpend")
    /\ Len(last.turn) = 1
    /\ last.turn[1].tile = Char("M")
    /\ prev.racks[Actor] = <<Char("A"), BlankNone>>

\* C24 happens too with an unassigned blank placed from a rack of blanks
C24_UnassignedBlankRefused ==
    /\ Validated
    /\ RejectedWith("NoTileToSpend")
    /\ Len(last.turn) = 1
    /\ last.turn[1].tile = BlankNone
    /\ prev.racks[Actor] = <<BlankNone, BlankNone>>

OneRow ==
    \A i, j \in 1..Len(last.turn) :
        last.turn[i].index \div BOARD_SIZE = last.turn[j].index \div BOARD_SIZE

OneColumn ==
    \A i, j \in 1..Len(last.turn) :
        last.turn[i].index % BOARD_SIZE = last.turn[j].index % BOARD_SIZE

\* C25: the linearity check passes exactly when all indexes of the turn
\* share one row or all share one column: a turn that shares neither is
\* rejected with TurnNotLinear, every turn whose indexes all lie in one row
\* or one column passes.  (Of the turns whose indexes are unique.)
C25_LinearIffOneRowOrColumn ==
    (Validated /\ Unique)
        => (RejectedWith("TurnNotLinear") <=> ~(OneRow \/ OneColumn))

\* what holds of C25: the same, of the turns that place a tile
LinearIffOneRowOrColumnNonEmpty ==
    (Validated /\ Unique /\ last.turn # <<>>)
        => (RejectedWith("TurnNotLinear") <=> ~(OneRow \/ OneColumn))

Proposed == last.op = "propose"

\* C26: propose(turn) is read-only: it validates nothing, changes no part of
\* the game (board, racks, bag, scores, cursor, state) and returns the
\* TurnScore of the scoring computation over the overlay of board and turn,
\* which depends on the board and the turn alone.
C26_ProposeReadsOnly ==
    Proposed
        => /\ game = prev
           /\ last.result.tag = "Ok"
           /\ Returns = PlayedTurnScore

\* C26 happens: a turn that validation refuses, its tiles in no one line,
\* was scored all the same
C26_RefusedTurnPreviewed ==
    /\ Proposed
    /\ ValidateTurn(prev, last.turn).err = "TurnNotLinear"
    /\ Returns # <<>>
    /\ game = prev

BagBuilt == last.op = "standard"

\* how many tiles of a bag are the given tile
CountOf(bag, tile) == Cardinality({k \in 1..Len(bag) : bag[k] = tile})

\* the canonical English tile counts
EnglishCounts ==
    << <<Char("A"), 9>>, <<Char("B"), 2>>, <<Char("C"), 2>>,
      <<Char("D"), 4>>, <<Char("E"), 12>>, <<Char("F"), 2>>,
      <<Char("G"), 3>>, <<Char("H"), 2>>, <<Char("I"), 9>>,
      <<Char("J"), 1>>, <<Char("K"), 1>>, <<Char("L"), 4>>,
      <<Char("M"), 2>>, <<Char("N"), 6>>, <<Char("O"), 8>>,
      <<Char("P"), 2>>, <<Char("Q"), 1>>, <<Char("R"), 6>>,
      <<Char("S"), 4>>, <<Char("T"), 6>>, <<Char("U"), 4>>,
      <<Char("V"), 2>>, <<Char("W"), 2>>, <<Char("X"), 1>>,
      <<Char("Y"), 2>>, <<Char("Z"), 1>>, <<BlankNone, 2>> >>

\* C27: a newly constructed standard bag holds exactly the canonical English
\* tile counts, 9 A, 2 B, ..., 1 Z and 2 blanks, 100 tiles in all, in some
\* order.
C27_StandardBagHoldsEnglishCounts ==
    BagBuilt
        => /\ Len(Returns) = 100
           /\ \A e \in 1..Len(EnglishCounts) :
                 CountOf(Returns, EnglishCounts[e][1]) = EnglishCounts[e][2]

\* what the bag holds instead: of every tile one fewer than the table says,
\* 73 tiles in all, no J, K, Q, X or Z and a single blank
StandardBagHoldsOneFewerOfEach ==
    BagBuilt
        => /\ Len(Returns) = 73
           /\ \A e \in 1..Len(EnglishCounts) :
                 CountOf(Returns, EnglishCounts[e][1]) = EnglishCounts[e][2] - 1

PassCalled == last.op = "pass"

\* C28: pass is permitted only when the bag holds at most 6 tiles: called
\* while the bag holds more than 6 tiles it returns CannotPass and changes
\* nothing; with 6 tiles or fewer it does not return CannotPass.
C28_PassRefusedWhileBagAboveSix ==
    PassCalled
        => /\ Len(prev.bag) > 6 => (RejectedWith("CannotPass") /\ game = prev)
           /\ RejectedWith("CannotPass") => Len(prev.bag) > 6
           /\ last.result.tag = "Ok" => Len(prev.bag) <= 6

\* C28 happens: a pass in a started game with 8 tiles in the bag was refused
C28_PassRefusedMidGame ==
    /\ PassCalled
    /\ prev.state = "Started"
    /\ Len(prev.bag) = 8
    /\ RejectedWith("CannotPass")
    /\ game = prev

\* C28 happens at the limit: a pass with exactly 6 tiles in the bag was not
\* refused with CannotPass
C28_PassAtSixNotRefused ==
    /\ PassCalled
    /\ Len(prev.bag) = 6
    /\ ~RejectedWith("CannotPass")

PlayWaits == last.op = "play" /\ last.result = Waiting

PlayEnded == last.op = "play" /\ last.result \notin {Waiting, Dropped}

\* C29: the only suspension point inside play is the dictionary lookup, and
\* while play waits there nothing has been mutated: the game equals the game
\* at the start of the call, so dropping the call there leaves the game
\* unchanged; once the lookup has answered, the rest (score, spend, commit,
\* refill, advance, game-over check) runs to the end in one piece, so the
\* call leaves what an uninterrupted play of the turn leaves.
C29_PlayWaitsOnlyForDictionary ==
    /\ PlayWaits
          => /\ game = prev
             /\ prev.state = "Started"
             /\ ValidateTurn(prev, last.turn).tag = "Ok"
             /\ last.consulted
    /\ (last.op = "play" /\ last.result = Dropped) => game = prev
    /\ PlayEnded
          => /\ game = Play(prev, last.turn).game
             /\ last.result = Play(prev, last.turn).result
             /\ last.consulted = Play(prev, last.turn).consulted

\* C29 happens: a play waits for the dictionary in a game that holds the
\* tiles of an earlier play
C29_PlayWaitsMidGame ==
    /\ PlayWaits
    /\ prev.board # StandardBoard
    /\ game = prev

\* C29 happens: a play that waited went on to commit its tiles
C29_PlayCommittedAfterLookup ==
    /\ PlayEnded
    /\ last.consulted
    /\ last.result.tag = "Ok"
    /\ game.board # prev.board

PersistCalled == last.op = "persist"

Fetched == last.op = "fetch"

\* the rows of the games table that carry the id
RowsOf(id) == {k \in 1..Len(channel.db) : channel.db[k].id = id}

\* what each persist does to the game and its row: an insert while the game
\* has no id, the id kept from then on, an update of the row of that id
\* afterwards, a failed write changing nothing; a game read back from the
\* table has the id of its row
PersistInsertsOnceThenUpdates ==
    /\ (PersistCalled /\ last.result.tag = "Ok" /\ prev.pkid = <<>>)
          => /\ game = [prev EXCEPT !.pkid = Returns]
             /\ \E k \in RowsOf(Returns[1]) : channel.db[k].data = prev
    /\ (PersistCalled /\ last.result.tag = "Ok" /\ prev.pkid # <<>>)
          => /\ game = prev
             /\ Returns = prev.pkid
             /\ \A k \in RowsOf(Returns[1]) : channel.db[k].data = game
    /\ (PersistCalled /\ last.result.tag # "Ok") => game = prev
    /\ (Fetched /\ last.player = "read" /\ channel.db # <<>>)
          => RowsOf(game.pkid[1]) # {}
    /\ game.pkid # <<>> => Cardinality(RowsOf(game.pkid[1])) = 1

\* C30: persist inserts a new row only while the game has no storage id;
\* after the first successful insert the id is kept and every later persist,
\* also after the game was fetched back from storage, updates that same row
\* and returns the same id, so one game never produces two rows; a failed
\* insert leaves the game without an id, so the next persist inserts again.
C30_PersistKeepsOneRow ==
    /\ PersistInsertsOnceThenUpdates
    /\ Len(channel.db) <= 1

\* the game was saved, its row is in the table, and the game of the same
\* room is in play without an id
StoredGameInPlayWithoutId ==
    /\ channel.db # <<>>
    /\ game.pkid = <<>>

Converted == last.op = "try_from"

\* the payload is an object whose keys are decimal integers and whose values
\* are strings of one character
WellFormed(payload) ==
    /\ payload[1] = "Object"
    /\ \A k \in 1..Len(payload[2]) :
          /\ payload[2][k][1] # <<>>
          /\ \A c \in 1..Len(payload[2][k][1]) :
                payload[2][k][1][c] \in {"0", "1", "2", "3", "4", "5", "6", "7", "8", "9"}
          /\ payload[2][k][2][1] = "String"
          /\ Len(payload[2][k][2][2]) = 1

\* the number a key of digits denotes, for the keys of at most three digits
KeyNumber(chars) ==
    CHOOSE n \in 0..999 : ParseUsize(chars) = Ok(n)

\* C31: converting a turn payload yields a TurnParse or TileParse error value
\* whenever the payload is not an object, a key is not a decimal integer or
\* a value is not a single-character string; for every well-formed payload
\* it yields the turn with exactly those (index, tile) pairs.
C31_PayloadConvertsOrFailsWithError ==
    Converted
        => IF WellFormed(last.turn)
           THEN /\ last.result.tag = "Ok"
                /\ Len(Returns) = Len(last.turn[2])
                /\ \A k \in 1..Len(Returns) :
                      /\ Returns[k].index = KeyNumber(last.turn[2][k][1])
                      /\ Returns[k].tile = Char(last.turn[2][k][2][2][1])
           ELSE RejectedWith("TurnParse") \/ RejectedWith("TileParse")

\* what the conversion does: a well-formed payload becomes its turn, any
\* other payload ends the caller in a panic
PayloadConvertsOrPanics ==
    Converted
        => IF WellFormed(last.turn)
           THEN /\ last.result.tag = "Ok"
                /\ Len(Returns) = Len(last.turn[2])
                /\ \A k \in 1..Len(Returns) :
                      /\ Returns[k].index = KeyNumber(last.turn[2][k][1])
                      /\ Returns[k].tile = Char(last.turn[2][k][2][2][1])
           ELSE last.result.tag = "Panic" /\ ~alive

\* C32: every failure of a play, swap or pass message is turned into an
\* error notification to the sender: whatever its payload, its sender or the
\* lifecycle state, no such message terminates the game actor or leaves the
\* in-memory game partly updated.
C32_MessageFailuresAreNotified ==
    last.op \in {"play", "swap", "pass"}
        => /\ alive
           /\ last.result.tag \in {"Ok", "Err"}
           /\ (last.result.tag = "Err" /\ last.result.err \in PlayErrors)
                 => /\ game.board = prev.board
                    /\ game.racks = prev.racks
                    /\ game.scores = prev.scores
                    /\ game.bag = prev.bag

\* the messages that end the actor: a swap, a pass while the bag holds 6
\* tiles or fewer, and any of the three from a connection that never joined
MessagePanics ==
    (last.op \in {"play", "swap", "pass"} /\ ~alive)
        => \/ ~HasPlayerIndex(channel, last.player)
           \/ /\ last.op = "swap"
              /\ PlayerIndexOf(channel, last.player) = prev.player_index
           \/ /\ last.op = "pass"
              /\ PlayerIndexOf(channel, last.player) = prev.player_index
              /\ Len(prev.bag) <= PASS_BAG_LIMIT

\* squares a and b lie in one line of the pass: one row for step 1, one
\* column for step BOARD_SIZE
SameLine(a, b, step) ==
    IF step = 1 THEN a \div BOARD_SIZE = b \div BOARD_SIZE
    ELSE a % BOARD_SIZE = b % BOARD_SIZE

\* square i is off the board, outside the line of square a, or empty
EmptyOrOff(source, i, a, step) ==
    \/ i < 0
    \/ i >= INDEX_OVERFLOW
    \/ ~SameLine(i, a, step)
    \/ GetChar(source, i) = NoChar

\* the indexes are consecutive filled squares of one line
RunInLine(source, indexes, step) ==
    /\ Len(indexes) >= 2
    /\ \A k \in 1..Len(indexes) :
          /\ indexes[k] \in 0..(INDEX_OVERFLOW - 1)
          /\ GetChar(source, indexes[k]) # NoChar
          /\ SameLine(indexes[k], indexes[1], step)
          /\ k > 1 => indexes[k] = indexes[k - 1] + step

\* the run ends where the line ends or an empty square follows
EndsRun(source, indexes, step) ==
    EmptyOrOff(source, indexes[Len(indexes)] + step, indexes[1], step)

\* the run begins where the line begins or an empty square precedes
BeginsRun(source, indexes, step) ==
    EmptyOrOff(source, indexes[1] - step, indexes[1], step)

\* the step between the squares of the k-th word of a scan: the words of the
\* horizontal pass come first, one for each cursor the pass stopped at
StepOf(k) == IF k <= Len(Returns[2][1]) THEN 1 ELSE BOARD_SIZE

\* C33: every word the scanner yields is a maximal run inside one line: its
\* indexes are consecutive squares of a single row (horizontal pass) or a
\* single column (vertical pass), all filled, it never continues across the
\* end of a row or column, and the squares just before and just after it in
\* that line are empty or off the board.
C33_WordsAreMaximalRuns ==
    WordsCalled
        => \A k \in 1..Len(Returns[1]) :
              /\ RunInLine(ScannedSource, Returns[1][k].indexes, StepOf(k))
              /\ BeginsRun(ScannedSource, Returns[1][k].indexes, StepOf(k))
              /\ EndsRun(ScannedSource, Returns[1][k].indexes, StepOf(k))

\* what holds of C33: every word is a run of consecutive filled squares of
\* one line that ends where the line ends or an empty square follows
WordsAreRunsToTheirEnd ==
    WordsCalled
        => \A k \in 1..Len(Returns[1]) :
              /\ RunInLine(ScannedSource, Returns[1][k].indexes, StepOf(k))
              /\ EndsRun(ScannedSource, Returns[1][k].indexes, StepOf(k))

\* the squares the turn lays a tile on
TurnSquares(turn) == {turn[j].index : j \in 1..Len(turn)}

\* the sum over the squares of letter value, times the letter bonus of the
\* layout on the squares the turn covers and times 1 on the others
RECURSIVE PlacedLetterSum(_, _, _)
PlacedLetterSum(board, turn, indexes) ==
    IF indexes = {} THEN 0
    ELSE LET index == CHOOSE i \in indexes : TRUE
         IN  ScoreTile(TileOn(board, turn, index))
                 * (IF index \in TurnSquares(turn)
                    THEN Multiplier(StandardBoard, index, "LetterBonus")
                    ELSE 1)
             + PlacedLetterSum(board, turn, indexes \ {index})

\* C34: a letter-bonus or word-bonus square multiplies a score only in the
\* turn that places a tile on it: a word running through a square that was
\* occupied before counts that tile at its plain letter value and gets no
\* word multiplier from it, while a newly covered bonus square counts in
\* each new word that contains it.
C34_BonusOnlyForPlacedTiles ==
    (Scored /\ OnFreeSquares)
        => LET words == NewWords(prev.board, last.turn)
           IN  /\ Len(Returns) >= Len(words)
               /\ \A k \in 1..Len(words) :
                     Returns[k][2]
                        = PlacedLetterSum(prev.board, last.turn,
                                          SeqRange(words[k].indexes))
                          * WordMultiplier(StandardBoard,
                                           SeqRange(words[k].indexes)
                                               \cap TurnSquares(last.turn))

\* C34 happens: A and X laid below M, A of SMART: MA runs through the centre
\* square, doubled when SMART was played, and is not doubled again, while X
\* on a double-letter square counts twice in AX across and in AX down
C34_CentreNotDoubledAgain ==
    /\ Scored
    /\ prev.board = SmartBoard
    /\ last.turn = TurnB
    /\ IsOccupied(prev.board, BOARD_CENTER)
    /\ GetSquare(StandardBoard, BOARD_CENTER) = SqWordBonus(2)
    /\ GetSquare(prev.board, 128) = SqLetterBonus(2)
    /\ Returns = << <<"AX", 17>>, <<"MA", 1>>, <<"AX", 17>> >>

\* C35: in every reachable state the players list, the racks list and the
\* score-history list have the same length, so index i of each refers to the
\* same player, and the rack and the history the cursor points at exist
\* whenever the game is not Pre.
C35_PlayersRacksScoresAligned ==
    /\ Len(game.racks) = Len(game.players)
    /\ Len(game.scores) = Len(game.players)
    /\ game.state # "Pre"
          => /\ game.player_index + 1 \in DOMAIN game.racks
             /\ game.player_index + 1 \in DOMAIN game.scores

\* C35 happens: two players joined, the game was started and a play was
\* accepted, and each of the three lists has two entries
C35_TwoPlayersAfterPlay ==
    /\ last.op = "play"
    /\ last.result.tag = "Ok"
    /\ Len(game.players) = 2
    /\ Len(game.racks) = 2
    /\ Len(game.scores) = 2

PlayCalled == last.op = "play"

\* the turn holds an index beyond the last square of the board
BeyondBoard(turn) == \E j \in 1..Len(turn) : turn[j].index >= 225

\* C38: play never writes outside the board: a turn containing an index of
\* 225 or more is rejected with an error before anything is mutated, so no
\* play call aborts after it has already pushed a score or spent rack tiles.
C38_TurnBeyondBoardRejected ==
    PlayCalled
        => /\ BeyondBoard(last.turn) => (last.result.tag = "Err" /\ game = prev)
           /\ last.result.tag = "Panic" => game = prev

\* what play does with a turn beyond the board: it is refused only where a
\* check meant for something else refuses it, and otherwise the score is
\* pushed and the tiles are spent before commit_turn panics
TurnBeyondBoardRefusedOrAborts ==
    (PlayCalled /\ BeyondBoard(last.turn) /\ prev.state = "Started")
        => \/ /\ last.result.tag = "Err"
              /\ last.result.err \in PlayErrors
              /\ game = prev
           \/ /\ last.result.tag = "Panic"
              /\ Len(game.scores[1]) = Len(prev.scores[1]) + 1
              /\ Len(game.racks[1]) = Len(prev.racks[1]) - Len(last.turn)
              /\ ~alive

\* the squares of the board that hold a tile
OccupiedSquares(board) == {i \in 0..(Len(board) - 1) : board[i + 1].kind = "Tile"}

\* the tiles of the game: in the bag, on the racks and on the board
TilesOf(g) ==
    Len(g.bag) + TilesOnRacks(g.racks) + Cardinality(OccupiedSquares(g.board))

\* the call observed in last kept the tiles: none duplicated, none lost, the
\* bag no larger and no square cleared
TilesKept ==
    /\ TilesOf(game) = TilesOf(prev)
    /\ Len(game.bag) <= Len(prev.bag)
    /\ OccupiedSquares(prev.board) \subseteq OccupiedSquares(game.board)

\* C36: tiles are conserved: over any sequence of add_player, start and play
\* calls, (tiles in the bag) + (tiles on all racks) + (tiles written to the
\* board by plays) stays what it was, the bag never grows and the number of
\* Occupied squares never shrinks.
C36_TilesConserved == TilesKept

\* what holds of C36: every call keeps the tiles unless it is a play of a
\* turn with an index beyond the board
TilesConservedWithinBoard ==
    ~(PlayCalled /\ BeyondBoard(last.turn)) => TilesKept

\* the call observed in last moved the cursor of a game that was Started
CursorMoved == prev.state = "Started" /\ game.player_index # prev.player_index

\* the cursor stepped to the next player, wrapping after the last
SteppedOnce == game.player_index = (prev.player_index + 1) % Len(prev.players)

\* C37: whenever the game is Started the cursor is a valid player index, and
\* once the game has been started the cursor changes only as the result of
\* an accepted play, by exactly one step; no other operation moves it.
C37_CursorMovesOnlyByPlay ==
    /\ game.state = "Started" => game.player_index < Len(game.players)
    /\ CursorMoved => (PlayCalled /\ Accepted /\ SteppedOnce)

\* what holds of C37: the cursor of a Started game is a valid player index,
\* and a call that moves it is an accepted play stepping it once or a
\* start(), which draws it again
CursorMovesByPlayOrStart ==
    /\ game.state = "Started" => game.player_index < Len(game.players)
    /\ CursorMoved => \/ PlayCalled /\ Accepted /\ SteppedOnce
                      \/ last.op = "start"


\* the squares of S joined to the squares of group by steps between
\* orthogonal neighbours
RECURSIVE GroupOf(_, _)
GroupOf(S, group) ==
    LET more == {x \in S \ group : \E y \in group : x \in ConnectedIndexes(y)}
    IN  IF more = {} THEN group ELSE GroupOf(S, group \cup more)

\* C39: starting from the empty standard board, after any sequence of
\* accepted plays the Occupied squares are either none or include the centre
\* square (index 112) and form a single orthogonally connected group.
C39_TilesFormOneGroup ==
    LET occupied == OccupiedSquares(game.board)
    IN  \/ occupied = {}
        \/ /\ BOARD_CENTER \in occupied
           /\ GroupOf(occupied, {BOARD_CENTER}) = occupied

\* what holds of C39: the Occupied squares are none or include the centre,
\* and an accepted play covers the centre or lays a tile next to a square
\* that was Occupied before it
PlaysTouchTheBoard ==
    LET occupied == OccupiedSquares(game.board)
    IN  /\ occupied = {} \/ BOARD_CENTER \in occupied
        /\ (PlayCalled /\ Accepted)
              => \/ BOARD_CENTER \in TurnSquares(last.turn)
                 \/ \E x \in TurnSquares(last.turn) :
                       ConnectedIndexes(x) \cap OccupiedSquares(prev.board) # {}


\* the handler about to run in this step handles a play, swap or pass
\* message of a connection whose player index is not the game's cursor
FromAnotherPlayer ==
    /\ last = NoCall
    /\ last'.op \in {"play", "swap", "pass"}
    /\ HasPlayerIndex(channel, last'.player)
    /\ PlayerIndexOf(channel, last'.player) # game.player_index

\* the step left the game, the games table and the count of failed saves as
\* they were and consulted no dictionary
NothingTouched ==
    /\ game' = game
    /\ channel' = channel
    /\ ~last'.consulted

\* C40: the channel layer lets only the current player act: a play, swap or
\* pass message from a connection whose player index differs from the
\* game's cursor is rejected with NotYourTurn before the engine is called,
\* changes nothing in the game and triggers no save.
C40_OnlyCurrentPlayerActs ==
    [][FromAnotherPlayer
          => (last'.result = Err("NotYourTurn", "") /\ NothingTouched)]_vars

\* what holds of C40: the message of another player changes nothing and
\* saves nothing; it is rejected with NotYourTurn if its payload converts
\* into a turn, and ends the actor in the conversion if it does not
OtherPlayersChangeNothing ==
    [][FromAnotherPlayer
          => /\ NothingTouched
             /\ IF TurnTryFrom(last'.turn).tag = "Ok"
                THEN last'.result = Err("NotYourTurn", "")
                ELSE last'.result = TurnTryFrom(last'.turn) /\ ~alive']_vars


=============================================================================
